---- MODULE Spec2Model ----
(***************************************************************************)
(* Catalog & order synchronisation layer of centery-app: the order writer  *)
(* (createOrder), the order reader (getUserOrders, getOrderById), the      *)
(* table client (callFeishuBitableApi) and the address store they read.    *)
(***************************************************************************)
EXTENDS Integers, Sequences, FiniteSets, TLC

VARIABLES
    products,     \* external product table: record id -> fields
    addresses,    \* relational table addresses: id -> row or NoRow
    orderRows,    \* external order table: the line-item rows, oldest first
    uuidCount,    \* number of identifiers uuidv4() has produced
    req,          \* the createOrder calls in progress, one per request slot
    listResp,     \* the last response of GET /api/orders
    detailResp,   \* the last response of GET /api/orders/:id
    addrReq,      \* the address handler calls, one per slot
    catResp,      \* the last product handler call and its response
    cache,        \* the edge cache: cache key -> stored response or NoEntry
    imgReq,       \* the image proxy calls in progress, one per slot
    pager         \* a caller paging through the product search

vars == <<products, addresses, orderRows, uuidCount, req, listResp, detailResp, addrReq,
          catResp, cache, imgReq, pager>>

----------------------------------------------------------------------------
\* Bounds of the model.
NumReq == 2
MaxItems == 2
MaxQty == 2
MaxStock == 1
MaxPrice == 2
MaxAddr == 3
NumImg == 2
MaxRows == 3
NumAddrReq == 2

\* Program constants.
NotFoundCode == 254404

None == 0 - 1                    \* an absent field / undefined
Users == {1, 2}
Reqs == 1..NumReq
ProductIds == {"p1"}             \* record ids present in the product table
ItemIds == ProductIds \cup {"px"}   \* "px" resolves to no record
Quantities == 0..MaxQty
StockVals == 0..MaxStock
PriceVals == 1..MaxPrice
AddrIds == 1..MaxAddr
NoRow == [user_id |-> 0]
NoAddressId == 0                 \* addressId absent from the body (falsy)

Username(u) == IF u = 1 THEN "alice" ELSE "bob"

\* Request bodies of the address handlers: (recipient_name, phone, address).
AddrTexts == { <<"n1", "t1", "a1">>, <<"n2", "t2", "a2">> }

Item(id, q) == [id |-> id, quantity |-> q]
AllItems == { Item(id, q) : id \in ItemIds, q \in Quantities }
\* The items a well-behaved client sends: a positive quantity.
PositiveItems == { it \in AllItems : it.quantity > 0 }
\* The items member of a request body: absent (undefined / null), present but
\* not an array, an empty array or a non-empty one.  The code reads element i
\* of the array only in iteration i of its loop, so the model draws each
\* element when the loop reaches it; more tells whether the array has elements
\* not yet read.
ItemsKinds == {"absent", "nonarray", "empty", "nonempty"}
ItemsInput(kind) == [kind |-> kind, more |-> (kind = "nonempty")]
NoItems == ItemsInput("absent")

\* uuidv4() yields hyphenated identifiers; a path segment may also be a plain
\* word (letters, digits, underscore).
Uuid(n) == [kind |-> "uuid", n |-> n]
Word(n) == [kind |-> "word", n |-> n]
NoOrderId == [kind |-> "none", n |-> 0]

\* JavaScript's  v || d  on a number-or-undefined value.
OrDefault(v, d) == IF v = None \/ v = 0 THEN d ELSE v

----------------------------------------------------------------------------
\* Table client (utils/feishu).

\* getFeishuAccessToken: the token endpoint answered tokenCode.
getFeishuAccessToken(tokenCode) ==
    IF tokenCode # 0
      THEN [threw |-> TRUE, kind |-> "token", code |-> tokenCode]
      ELSE [threw |-> FALSE, kind |-> "token", code |-> 0]

\* Mutant: a client that sends the request again when the service answers
\* an error.
callFeishuBitableApiRetrying(tokenCode, apiCode) ==
    IF tokenCode # 0
      THEN [threw |-> TRUE, kind |-> "token", code |-> tokenCode, sent |-> FALSE,
            fetches |-> <<"tenant_access_token">>]
      ELSE IF apiCode # 0
        THEN [threw |-> TRUE, kind |-> "api", code |-> apiCode, sent |-> TRUE,
              fetches |-> <<"tenant_access_token", "bitable", "bitable">>]
        ELSE [threw |-> FALSE, kind |-> "api", code |-> 0, sent |-> TRUE,
              fetches |-> <<"tenant_access_token", "bitable">>]

\* callFeishuBitableApi: one token acquisition, then (only with a token) one
\* request whose envelope carries apiCode; code # 0 throws
\* "Feishu API request failed: <msg> (code: <code>)".
\* fetches: the outbound requests the call made, in order.
callFeishuBitableApi(tokenCode, apiCode) ==
    LET tok == getFeishuAccessToken(tokenCode) IN
    IF tok.threw
      THEN [threw |-> TRUE, kind |-> "token", code |-> tokenCode, sent |-> FALSE,
            fetches |-> <<"tenant_access_token">>]
      ELSE IF apiCode # 0
        THEN [threw |-> TRUE, kind |-> "api", code |-> apiCode, sent |-> TRUE,
              fetches |-> <<"tenant_access_token", "bitable">>]
        ELSE [threw |-> FALSE, kind |-> "api", code |-> 0, sent |-> TRUE,
              fetches |-> <<"tenant_access_token", "bitable">>]

\* Mutant: the handler looks for another code.
MessageIncludesOtherCode(res) ==
    /\ res.kind = "api"
    /\ res.code = 1254043

\* error.message.includes('code: 254404'): the message of an API error ends
\* "(code: <decimal code>)", so every code whose decimal text starts with
\* 254404 matches.
MessageIncludesNotFound(res) ==
    /\ res.kind = "api"
    /\ \E k \in 0..3 : res.code \div (10 ^ k) = NotFoundCode

\* What the token endpoint and the table service may answer.
TokenCodes == {0, 99991663}
GetRecordCodes(id) == IF id \in ProductIds THEN {0, 1254607} ELSE {NotFoundCode}
WriteCodes == {0, 1254607}

----------------------------------------------------------------------------
\* Responses.
Resp(status, body) == [status |-> status, body |-> body]
NoResp == Resp(0, [none |-> TRUE])

\* No GET answered yet.  seen: the number of rows the order table held when
\* the GET was answered.
NoRead == [user |-> 0, resp |-> NoResp, seen |-> 0, found |-> <<>>]

\* An address handler slot: the handler called (op), its caller, the
\* address id of the path (for createAddress, the id of the inserted row),
\* the body, whether the handler's statement on the target row found it
\* (found), how many statements changed a row (writes), and the response.
AddrSlots == 1..NumAddrReq
IdleAddrReq == [pc |-> "idle", op |-> "none", user |-> 0, addressId |-> 0,
                body |-> [texts |-> <<"", "", "">>, is_default |-> FALSE],
                found |-> FALSE, writes |-> 0, resp |-> NoResp]

\* A request slot: the locals of one createOrder call (user, items,
\* addressId, address, validatedItems, orderId), its response, and the record
\* of what it did:
\*   dbReads    the number of address lookups it made,
\*   calls      its table-client calls, in order: the operation, the record id
\*              asked for, and the codes the token endpoint and the table
\*              service answered (sent: the table request went out),
\*   reads      the items whose product row it fetched, with the quantity
\*              asked and the stock and price the row held,
\*   checkedAt  the number of rows in the order table when its last stock
\*              check passed,
\*   batch      the records it handed to the table client for batch_create,
\*   wrote      the rows the table service stored for it.
IdleReq == [pc |-> "idle", user |-> 0, items |-> NoItems, addressId |-> 0,
            address |-> NoRow, validatedItems |-> <<>>,
            orderId |-> NoOrderId, resp |-> NoResp,
            dbReads |-> 0, calls |-> <<>>, reads |-> <<>>, checkedAt |-> 0,
            batch |-> <<>>, wrote |-> <<>>]

\* No product handler answered yet.
NoCat == [op |-> "none", resp |-> NoResp]

\* File tokens of the media service and the proxy URLs built from them.
FileTokens == {"f1", "f2"}
ProxyUrl(fileToken) == [path |-> "/api/image_proxy", file_token |-> fileToken]
CacheKeys == { ProxyUrl(f) : f \in FileTokens }

\* An HTTP response of the image proxy, of the media service or of the
\* cache: status, body and the Cache-Control header ("" when not set).
ImageResponse(status, body, cacheControl) ==
    [status |-> status, body |-> body, cacheControl |-> cacheControl]
NoEntry == ImageResponse(0, "", "")

\* An image proxy slot: the locals of one handleImageProxy call (fileToken,
\* the cache key, the media response), its response, and the record of what
\* it did: the outbound fetches and the cache writes it made.
ImgSlots == 1..NumImg
IdlePager == [pc |-> "idle", pageSize |-> "", q |-> "", category |-> "", token |-> "",
              received |-> <<>>]
IdleImg == [pc |-> "idle", fileToken |-> "", response |-> NoEntry, resp |-> NoEntry,
            hit |-> FALSE, fetches |-> <<>>, puts |-> 0]

Init ==
    /\ catResp = NoCat
    /\ cache = [k \in CacheKeys |-> NoEntry]
    /\ imgReq = [i \in ImgSlots |-> IdleImg]
    /\ products \in [ProductIds -> [stock : {MaxStock}, price : {1}]]
    /\ addresses = [a \in AddrIds |->
          IF a \in Users
            THEN [user_id |-> a, recipient_name |-> "n1", phone |-> "t1",
                  address |-> "a1", is_default |-> FALSE]
            ELSE NoRow]
    /\ orderRows = <<>>
    /\ uuidCount = 0
    /\ req = [r \in Reqs |-> IdleReq]
    /\ listResp = NoRead
    /\ detailResp = NoRead
    /\ addrReq = [s \in AddrSlots |-> IdleAddrReq]
    /\ pager = IdlePager

----------------------------------------------------------------------------
\* Order writer: createOrder (orders.ts 45-142), one action per await.

Call(op, id, res) ==
    [op |-> op, id |-> id, token |-> IF res.kind = "token" THEN res.code ELSE 0,
     code |-> IF res.kind = "api" THEN res.code ELSE 0, sent |-> res.sent,
     threw |-> res.threw, fetches |-> res.fetches]

\* The handler returns resp; the unread rest of the request body goes with it.
Return(q, resp) == [q EXCEPT !.pc = "done", !.resp = resp, !.items.more = FALSE]

\* Mutant: the input check without its addressId test.
InputRejectedItemsOnly(items, addressId) ==
    items.kind \in {"absent", "nonarray", "empty"}

\* request.json() and the input check of lines 47-55.
InputRejected(items, addressId) ==
    \/ items.kind = "absent"        \* !items
    \/ items.kind = "nonarray"      \* !Array.isArray(items)
    \/ items.kind = "empty"         \* items.length === 0
    \/ addressId = NoAddressId      \* !addressId

\* The users are interchangeable, so the caller of the first slot is taken to
\* be user 1.
createOrderParse(r, u, kind, addressId) ==
    /\ req[r].pc = "idle"
    /\ r = 1 => u = 1
    /\ LET q == [req[r] EXCEPT !.user = u, !.items = ItemsInput(kind),
                               !.addressId = addressId] IN
       req' = [req EXCEPT ![r] =
          IF InputRejected(q.items, addressId)
            THEN Return(q, Resp(400, [error |-> "empty"]))
            ELSE [q EXCEPT !.pc = "address"]]
    /\ UNCHANGED <<products, addresses, orderRows, uuidCount, listResp, detailResp, addrReq, catResp, cache, imgReq, pager>>

\* Mutant: the lookup without its user_id condition.
SelectAddressAnyUser(addressId, userId) ==
    IF addressId \in AddrIds /\ addresses[addressId].user_id # 0
      THEN [user_id |-> userId,
            recipient_name |-> addresses[addressId].recipient_name,
            phone |-> addresses[addressId].phone,
            address |-> addresses[addressId].address]
      ELSE NoRow

\* SELECT recipient_name, phone, address FROM addresses WHERE id = ? AND user_id = ?
SelectAddress(addressId, userId) ==
    IF addressId \in AddrIds /\ addresses[addressId].user_id = userId
      THEN [user_id |-> userId,
            recipient_name |-> addresses[addressId].recipient_name,
            phone |-> addresses[addressId].phone,
            address |-> addresses[addressId].address]
      ELSE NoRow

\* The response of lines 62-67.
AddressMissingResp(addressId) == Resp(404, [error |-> "address"])

createOrderAddress(r) ==
    /\ req[r].pc = "address"
    /\ LET row == SelectAddress(req[r].addressId, req[r].user)
           q == [req[r] EXCEPT !.dbReads = @ + 1] IN
       req' = [req EXCEPT ![r] =
          IF row = NoRow
            THEN Return(q, AddressMissingResp(q.addressId))
            ELSE [q EXCEPT !.pc = "items", !.address = row]]
    /\ UNCHANGED <<products, addresses, orderRows, uuidCount, listResp, detailResp, addrReq, catResp, cache, imgReq, pager>>

\* Mutant: the stock check passes a quantity one above the stock.
StockInsufficientOffByOne(item, currentStock) == item.quantity > currentStock + 1

\* The stock check of line 82.
StockInsufficient(item, currentStock) == item.quantity > currentStock

\* One iteration of the validation loop, lines 71-105, on the array's next
\* element.
createOrderItem(r, item, more) ==
    /\ req[r].pc = "items"
    /\ Len(req[r].validatedItems) + 1 = MaxItems => ~more
    /\ \E tokenCode \in TokenCodes, apiCode \in GetRecordCodes(item.id) :
         LET res == callFeishuBitableApi(tokenCode, apiCode)
             q == [req[r] EXCEPT !.calls = Append(@, Call("get", item.id, res)),
                                 !.items.more = more]
         IN
         req' = [req EXCEPT ![r] =
           IF res.threw
             THEN IF MessageIncludesNotFound(res)
                    THEN Return(q, Resp(404, [error |-> "product", id |-> item.id]))
                    ELSE Return(q, Resp(500, [error |-> "failed"]))
             ELSE
               LET productFields == products[item.id]
                   currentStock == OrDefault(productFields.stock, 0)
                   currentPrice == OrDefault(productFields.price, 0)
                   q2 == [q EXCEPT !.reads = Append(@,
                            [id |-> item.id, quantity |-> item.quantity,
                             stock |-> currentStock, price |-> currentPrice])]
               IN
               IF StockInsufficient(item, currentStock)
                 THEN Return(q2, Resp(400, [error |-> "stock", product |-> item.id,
                                            current |-> currentStock,
                                            requested |-> item.quantity]))
                 ELSE [q2 EXCEPT !.validatedItems = Append(@,
                                    [id |-> item.id, quantity |-> item.quantity,
                                     currentPrice |-> currentPrice]),
                                 !.checkedAt = Len(orderRows),
                                 !.pc = IF more THEN "items" ELSE "write"]]
    /\ UNCHANGED <<products, addresses, orderRows, uuidCount, listResp, detailResp, addrReq, catResp, cache, imgReq, pager>>

\* parseFloat of a number is that number.
parseFloat(x) == x

\* Mutant: the record takes the product's price at write time.
OrderRecordLivePrice(orderId, item, user, address) ==
    [orderId |-> orderId,
     product |-> item.id,
     status |-> "placed",
     username |-> Username(user),
     quantity |-> item.quantity,
     price |-> parseFloat(OrDefault(products[item.id].price, 0)),
     recipient |-> address.recipient_name,
     phone |-> address.phone,
     address |-> address.address]

\* Mutant: the record takes the user's address as the store holds it at
\* write time.
OrderRecordLiveAddress(orderId, item, user, address) ==
    LET live == { a \in AddrIds : addresses[a].user_id = user }
        now == IF live = {} THEN address ELSE addresses[CHOOSE a \in live : TRUE]
    IN [orderId |-> orderId,
        product |-> item.id,
        status |-> "placed",
        username |-> Username(user),
        quantity |-> item.quantity,
        price |-> parseFloat(item.currentPrice),
        recipient |-> now.recipient_name,
        phone |-> now.phone,
        address |-> now.address]

\* The record built for one validated item, lines 109-121.
OrderRecord(orderId, item, user, address) ==
    [orderId |-> orderId,
     product |-> item.id,
     status |-> "placed",
     username |-> Username(user),
     quantity |-> item.quantity,
     price |-> parseFloat(item.currentPrice),
     recipient |-> address.recipient_name,
     phone |-> address.phone,
     address |-> address.address]

\* Mutant: only the first validated item is sent.
OrderRecordsFirstOnly(q, orderId) ==
    [i \in 1..1 |-> OrderRecord(orderId, q.validatedItems[i], q.user, q.address)]

\* Mutant: the records of the items the stock still covers at write time.
OrderRecordsRecheck(q, orderId) ==
    SelectSeq([i \in 1..Len(q.validatedItems) |->
                 OrderRecord(orderId, q.validatedItems[i], q.user, q.address)],
              LAMBDA rec : rec.quantity <= OrDefault(products[rec.product].stock, 0))

\* validatedItems.map(...), lines 109-121.
OrderRecords(q, orderId) ==
    [i \in 1..Len(q.validatedItems) |->
        OrderRecord(orderId, q.validatedItems[i], q.user, q.address)]

\* The table service stores a record with its creation time.
StoredRow(record, time) ==
    [f \in DOMAIN record \cup {"created"} |->
        IF f = "created" THEN time ELSE record[f]]

\* Mutant: a writer that takes the ordered units off the product rows.
createOrderWriteDecrementing(r) ==
    /\ req[r].pc = "write"
    /\ uuidCount' = uuidCount + 1
    /\ LET orderId == Uuid(uuidCount + 1)
           records == OrderRecords(req[r], orderId)
           res == callFeishuBitableApi(0, 0)
           stored == [i \in 1..Len(records) |-> StoredRow(records[i], uuidCount + 1)]
       IN
       /\ orderRows' = orderRows \o stored
       /\ req' = [req EXCEPT ![r] =
             Return([req[r] EXCEPT !.calls = Append(@, Call("batch", "", res)),
                                   !.orderId = orderId, !.batch = records,
                                   !.wrote = stored],
                    Resp(201, [success |-> TRUE, orderId |-> orderId]))]
    /\ products' = [p \in ProductIds |->
                      IF \E i \in 1..Len(req[r].validatedItems) :
                            req[r].validatedItems[i].id = p
                        THEN [products[p] EXCEPT !.stock = 0]
                        ELSE products[p]]
    /\ UNCHANGED <<addresses, listResp, detailResp, addrReq, catResp, cache, imgReq, pager>>

\* uuidv4() and the batch_create call, lines 107-141.  A batch the service
\* answers with an error may have been applied in part.
createOrderWrite(r) ==
    /\ req[r].pc = "write"
    /\ uuidCount' = uuidCount + 1
    /\ LET orderId == Uuid(uuidCount + 1)
           records == OrderRecords(req[r], orderId)
       IN
       \E tokenCode \in TokenCodes, apiCode \in WriteCodes :
         LET res == callFeishuBitableApi(tokenCode, apiCode)
             q == [req[r] EXCEPT !.calls = Append(@, Call("batch", "", res)),
                                 !.orderId = orderId,
                                 !.batch = records]
         IN
         \E k \in (IF ~res.threw THEN {Len(records)}
                    ELSE IF res.sent THEN 0..(Len(records) - 1) ELSE {0}) :
           LET stored == [i \in 1..k |-> StoredRow(records[i], uuidCount + 1)] IN
           /\ orderRows' = orderRows \o stored
           /\ req' = [req EXCEPT ![r] =
                 Return([q EXCEPT !.wrote = stored],
                        IF res.threw
                          THEN Resp(500, [error |-> "failed"])
                          ELSE Resp(201, [success |-> TRUE, orderId |-> orderId]))]
    /\ UNCHANGED <<products, addresses, listResp, detailResp, addrReq, catResp, cache, imgReq, pager>>

----------------------------------------------------------------------------
\* Order reader: getUserOrders (orders.ts 148-290).

\* What the table service answers to a search for a stored row.  Text fields
\* come back as arrays of rich-text spans, the product link as
\* link_record_ids, the amount (a formula field of the order table, never
\* written by this layer) as a value array.
OrderAmountFormula(row) == row.quantity * row.price

SearchFields(row) ==
    [orderId |-> <<[text |-> row.orderId]>>,
     status |-> row.status,
     product |-> [link_record_ids |-> <<row.product>>],
     quantity |-> row.quantity,
     amount |-> [value |-> <<OrderAmountFormula(row)>>],
     created |-> row.created,
     recipient |-> <<[text |-> row.recipient]>>,
     phone |-> row.phone,
     address |-> <<[text |-> row.address]>>]

OrderFieldNames == <<"orderId", "status", "product", "quantity", "amount", "created",
                     "recipient", "phone", "address">>

\* A search request without the username filter.
OrderSearchRequestNoFilter(username) ==
    [method |-> "POST", path |-> "records/search",
     field_names |-> OrderFieldNames,
     filter |-> <<>>,
     sort |-> <<[field_name |-> "created", desc |-> TRUE]>>]

\* The search request of lines 151-179: filter username is <name>, sorted by
\* creation time, newest first.
OrderSearchRequest(username) ==
    [method |-> "POST", path |-> "records/search",
     field_names |-> OrderFieldNames,
     filter |-> <<[conjunction |-> "and",
                   conditions |-> <<[field_name |-> "username", operator |-> "is",
                                     value |-> <<username>>]>>]>>,
     sort |-> <<[field_name |-> "created", desc |-> TRUE]>>]

\* The table service's answer to a search request on the rows s (oldest
\* first): the rows every condition of the filter holds of, newest first.
RowMatches(row, request) ==
    \A f \in 1..Len(request.filter) : \A c \in 1..Len(request.filter[f].conditions) :
       LET condition == request.filter[f].conditions[c] IN
       (condition.field_name = "username" /\ condition.operator = "is")
         => row.username = condition.value[1]
RECURSIVE SearchRows(_, _)
SearchRows(s, request) ==
    IF s = <<>> THEN <<>>
    ELSE LET rest == SearchRows(Tail(s), request) IN
         IF RowMatches(Head(s), request) THEN Append(rest, SearchFields(Head(s))) ELSE rest

SearchOrders(name) == SearchRows(orderRows, OrderSearchRequest(name))

\* Array.isArray(f) ? f[0]?.text : f  on a span array.
FirstText(spans) == IF Len(spans) > 0 THEN spans[1].text ELSE NoOrderId
FirstTextOr(spans, d) == IF Len(spans) > 0 THEN spans[1].text ELSE d

\* Mutant: a value the switch does not know is passed through.
FrontendStatusPassThrough(feishuStatus) ==
    CASE feishuStatus = "placed"    -> "pending"
      [] feishuStatus = "reviewing" -> "processing"
      [] feishuStatus = "shipping"  -> "shipped"
      [] feishuStatus = "signed"    -> "received"
      [] feishuStatus = "settled"   -> "completed"
      [] feishuStatus = "cancelled" -> "cancelled"
      [] OTHER                      -> feishuStatus

\* The switch of lines 199-220.
FrontendStatus(feishuStatus) ==
    CASE feishuStatus = "placed"    -> "pending"
      [] feishuStatus = "reviewing" -> "processing"
      [] feishuStatus = "shipping"  -> "shipped"
      [] feishuStatus = "signed"    -> "received"
      [] feishuStatus = "settled"   -> "completed"
      [] feishuStatus = "cancelled" -> "cancelled"
      [] OTHER                      -> "pending"

\* parseInt(quantity) || 1 and amountField?.value?.[0] || 0
ParseQuantity(qty) == OrDefault(qty, 1)
ParseAmount(field) == IF Len(field.value) > 0 THEN OrDefault(field.value[1], 0) ELSE 0

IndexOfOrder(orderMap, orderId) ==
    IF \E i \in 1..Len(orderMap) : orderMap[i].id = orderId
      THEN CHOOSE i \in 1..Len(orderMap) : orderMap[i].id = orderId
      ELSE 0

\* A new aggregate seeded from the first record seen of an order.
NewOrder(orderId, fields) ==
    [id |-> orderId,
     status |-> FrontendStatus(fields.status),
     items |-> <<>>,
     total |-> 0,
     created_at |-> fields.created,
     address |-> [recipient_name |-> FirstTextOr(fields.recipient, ""),
                  phone |-> fields.phone,
                  address |-> FirstTextOr(fields.address, "")]]

\* Mutant: every record opens a new aggregate (the orderMap.has test dropped).
AddRecordAlwaysOpens(orderMap, fields) ==
    LET orderId == FirstText(fields.orderId)
        amount == ParseAmount(fields.amount)
    IN Append(orderMap,
         [NewOrder(orderId, fields) EXCEPT
            !.items = <<[productId |-> fields.product.link_record_ids[1],
                         quantity |-> ParseQuantity(fields.quantity),
                         amount |-> amount]>>,
            !.total = amount])

\* An iteration in which every record of an order sets the aggregate's
\* status.
AddRecordLastRowWins(orderMap, fields) ==
    LET orderId == FirstText(fields.orderId) IN
    IF orderId = NoOrderId THEN orderMap
    ELSE
      LET opened == IF IndexOfOrder(orderMap, orderId) = 0
                      THEN Append(orderMap, NewOrder(orderId, fields))
                      ELSE orderMap
          i == IndexOfOrder(opened, orderId)
          amount == ParseAmount(fields.amount)
      IN [opened EXCEPT ![i].items = Append(@, [productId |-> fields.product.link_record_ids[1],
                                                quantity |-> ParseQuantity(fields.quantity),
                                                amount |-> amount]),
                        ![i].total = @ + amount,
                        ![i].status = FrontendStatus(fields.status)]

\* One iteration of the loop of lines 185-269; orderMap keeps insertion order.
AddRecord(orderMap, fields) ==
    LET orderId == FirstText(fields.orderId) IN
    IF orderId = NoOrderId THEN orderMap
    ELSE
      LET opened == IF IndexOfOrder(orderMap, orderId) = 0
                      THEN Append(orderMap, NewOrder(orderId, fields))
                      ELSE orderMap
          i == IndexOfOrder(opened, orderId)
          productId == IF Len(fields.product.link_record_ids) > 0
                         THEN fields.product.link_record_ids[1] ELSE "unknown"
          quantity == ParseQuantity(fields.quantity)
          amount == ParseAmount(fields.amount)
      IN [opened EXCEPT ![i].items = Append(@, [productId |-> productId,
                                                quantity |-> quantity,
                                                amount |-> amount]),
                        ![i].total = @ + amount]

RECURSIVE GroupOrders(_, _)
GroupOrders(items, orderMap) ==
    IF items = <<>> THEN orderMap
    ELSE GroupOrders(Tail(items), AddRecord(orderMap, Head(items)))

\* The response of getUserOrders for user u when the token endpoint answers
\* tokenCode and the search apiCode.
getUserOrdersRespOn(rows, u, tokenCode, apiCode) ==
    LET res == callFeishuBitableApi(tokenCode, apiCode) IN
    IF res.threw
      THEN Resp(500, [error |-> "failed"])
      ELSE LET orders == GroupOrders(SearchRows(rows, OrderSearchRequest(Username(u))), <<>>) IN
           Resp(200, [success |-> TRUE, orders |-> orders, total |-> Len(orders)])
getUserOrdersResp(u, tokenCode, apiCode) == getUserOrdersRespOn(orderRows, u, tokenCode, apiCode)

\* request and call record the search sent and how the table client fared.
getUserOrders(u) ==
    /\ listResp = NoRead /\ detailResp = NoRead /\ catResp = NoCat
    /\ \E tokenCode \in TokenCodes, apiCode \in WriteCodes :
         listResp' = [user |-> u, resp |-> getUserOrdersResp(u, tokenCode, apiCode),
                      seen |-> Len(orderRows), found |-> SearchOrders(Username(u)),
                      request |-> OrderSearchRequest(Username(u)),
                      call |-> Call("search", "", callFeishuBitableApi(tokenCode, apiCode))]
    /\ UNCHANGED <<products, addresses, orderRows, uuidCount, req, detailResp, addrReq, catResp, cache, imgReq, pager>>

\* getOrderById (orders.ts 296-347): a fixed mock order under the given id.
getOrderByIdResp(orderId, u) ==
    Resp(200, [success |-> TRUE,
               order |-> [orderId |-> orderId, userId |-> u, productId |-> "prod_001",
                          quantity |-> 2, status |-> "completed"]])

\* handleOrders (orders.ts 14-40) on GET /api/orders/<id>: the route
\* /^\/api\/orders\/\w+$/ matches a word, not a hyphenated uuid.
handleOrdersGetById(u, orderId) ==
    /\ listResp = NoRead /\ detailResp = NoRead /\ catResp = NoCat
    /\ detailResp' = [user |-> u, orderId |-> orderId,
                      resp |-> IF orderId.kind = "word"
                                 THEN getOrderByIdResp(orderId, u)
                                 ELSE Resp(404, [error |-> "endpoint"]),
                      seen |-> Len(orderRows)]
    /\ UNCHANGED <<products, addresses, orderRows, uuidCount, req, listResp, addrReq, catResp, cache, imgReq, pager>>

PathIds == { Uuid(n) : n \in 1..NumReq } \cup { Word(1) }

----------------------------------------------------------------------------
\* Catalog query: handleProducts (products.ts 232-440).  Each handler makes
\* one table-client call and maps its answer.

\* A JavaScript number that may be NaN.
Num(n) == [nan |-> FALSE, n |-> n]
NaN == [nan |-> TRUE, n |-> 0]
Truthy(x) == ~x.nan /\ x.n # 0

\* parseInt(s, 10) and Number.prototype.toString on the texts of the model.
parseInt(s) ==
    CASE s = "1" -> Num(1)
      [] s = "2" -> Num(2)
      [] s = "2x" -> Num(2)
      [] s = "9" -> Num(9)
      [] s = "0" -> Num(0)
      [] s = "-1" -> Num(0 - 1)
      [] OTHER -> NaN
toString(x) ==
    CASE x.nan -> "NaN"
      [] x.n = 1 -> "1"
      [] x.n = 2 -> "2"
      [] x.n = 9 -> "9"
      [] x.n = 0 -> "0"
      [] OTHER -> "-1"

\* Values of the pageSize, pageToken, q and category query parameters; ""
\* is an absent (or empty) parameter.
PageSizeParams == {"", "abc", "0", "-1", "2", "2x"}
PageTokens == {"", "t1"}
SearchTerms == {"", "tea"}
Categories == {"", "drink"}

ProductFieldNames == <<"name", "type", "image", "price", "stock", "unit", "description">>

\* A request builder that always sends the name condition.
SearchRequestAlwaysFilter(pageToken, pageSize, searchTerm, category) ==
    LET queryParams ==
          (IF Truthy(pageSize) THEN << <<"page_size", toString(pageSize)>> >> ELSE <<>>)
          \o (IF pageToken # "" THEN << <<"page_token", pageToken>> >> ELSE <<>>)
        conditions ==
          <<[field_name |-> "name", operator |-> "contains", value |-> <<searchTerm>>]>>
          \o (IF category # ""
                THEN <<[field_name |-> "type", operator |-> "is", value |-> <<category>>]>>
                ELSE <<>>)
    IN [method |-> "POST", path |-> "records/search", query |-> queryParams,
        field_names |-> ProductFieldNames,
        filter |-> <<[conjunction |-> "and", conditions |-> conditions]>>]

\* The request fetchProductsFromFeishu builds, lines 371-415.
SearchRequest(pageToken, pageSize, searchTerm, category) ==
    LET queryParams ==
          (IF Truthy(pageSize) THEN << <<"page_size", toString(pageSize)>> >> ELSE <<>>)
          \o (IF pageToken # "" THEN << <<"page_token", pageToken>> >> ELSE <<>>)
        conditions ==
          (IF searchTerm # ""
             THEN <<[field_name |-> "name", operator |-> "contains", value |-> <<searchTerm>>]>>
             ELSE <<>>)
          \o (IF category # ""
                THEN <<[field_name |-> "type", operator |-> "is", value |-> <<category>>]>>
                ELSE <<>>)
    IN [method |-> "POST", path |-> "records/search", query |-> queryParams,
        field_names |-> ProductFieldNames,
        filter |-> IF Len(conditions) > 0
                     THEN <<[conjunction |-> "and", conditions |-> conditions]>>
                     ELSE <<>>]

\* Row-to-product mapping of the fields the model keeps, lines 419-433 and
\* 334-343.
ProductOf(id, fields) ==
    [id |-> id, price |-> OrDefault(fields.price, 0), stock |-> OrDefault(fields.stock, 0)]

\* A field the table service left out of a row (undefined in the code).
Absent == "absent"
TextOr(v, d) == IF v = Absent \/ v = "" THEN d ELSE v

\* The optional fields of a catalog row, and the row of product p1 as the
\* service returns it when the cells named in missing are empty: the service
\* leaves an empty cell out of the row.
OptionalFields == {"name", "type", "image", "price", "stock", "unit", "description"}
NoneMissing == {{}}
SomeMissing == {{}, OptionalFields} \cup {{f} : f \in OptionalFields}
RowFields(missing) ==
    [price |-> IF "price" \in missing THEN None ELSE products["p1"].price,
     stock |-> IF "stock" \in missing THEN None ELSE products["p1"].stock,
     name |-> IF "name" \in missing THEN Absent ELSE "tea",
     image |-> IF "image" \in missing THEN Absent ELSE "f1",
     description |-> IF "description" \in missing THEN Absent ELSE "green",
     type |-> IF "type" \in missing THEN Absent ELSE "drink",
     unit |-> IF "unit" \in missing THEN Absent ELSE "box"]

\* The empty string where a proxy URL is expected.
EmptyUrl == [path |-> "", file_token |-> ""]

\* The mapping of one search row, lines 418-433.
SearchProductOf(item) ==
    LET fields == item.fields
        imageUrl == IF fields.image # Absent THEN ProxyUrl(fields.image) ELSE EmptyUrl
        numbers == ProductOf(item.record_id, fields)
    IN [id |-> item.record_id,
        name |-> IF fields.name # Absent THEN fields.name ELSE "Unnamed Product",
        price |-> numbers.price,
        stock |-> numbers.stock,
        image |-> imageUrl,
        description |-> IF fields.description # Absent THEN fields.description ELSE "",
        type |-> TextOr(fields.type, ""),
        unit |-> TextOr(fields.unit, "")]

\* What the table service may answer to a search: a page of the rows (which
\* rows match a filter is the service's matter), has_more and page_token
\* ("" when absent).  has_items is FALSE when the answer carries no item
\* list at all.
ProductRows(missing) == [i \in 1..1 |-> [record_id |-> "p1", fields |-> RowFields(missing)]]
NoData == [has_items |-> FALSE, items |-> <<>>, has_more |-> FALSE, page_token |-> ""]
SearchAnswers(request, Missing, Present) ==
    {[has_items |-> TRUE, items |-> items, has_more |-> more, page_token |-> token] :
        items \in {ProductRows(missing) : missing \in Missing}
                  \cup (IF request.filter = <<>> THEN {} ELSE {<<>>}),
        more \in BOOLEAN, token \in PageTokens}
    \cup (IF FALSE \in Present THEN {NoData} ELSE {})

\* The catalog table as the paging service sees it: MaxRows rows, each with
\* every field present, and the page the service answers to a request.  The
\* service starts at the offset its page token stands for ("" is the start),
\* returns at most page_size rows (ServicePageSize when the request names
\* none) and sets has_more and the next page_token.  Every row has the name
\* "tea" and the type "drink", so every row matches the filters of the model.
ServicePageSize == 20
RowId(i) == CASE i = 1 -> "p1" [] i = 2 -> "p2" [] i = 3 -> "p3" [] OTHER -> "p4"
CatalogRows == [i \in 1..MaxRows |-> [record_id |-> RowId(i), fields |-> RowFields({})]]
TokenOf(offset) == CASE offset = 1 -> "t1" [] offset = 2 -> "t2" [] offset = 3 -> "t3"
                     [] OTHER -> "t4"
OffsetOf(token) == CASE token = "t1" -> 1 [] token = "t2" -> 2 [] token = "t3" -> 3
                     [] token = "t4" -> 4 [] OTHER -> 0
QueryValue(request, key, default) ==
    IF \E i \in 1..Len(request.query) : request.query[i][1] = key
      THEN request.query[CHOOSE i \in 1..Len(request.query) : request.query[i][1] = key][2]
      ELSE default
PagedAnswers(request) ==
    LET text == QueryValue(request, "page_size", "")
        size == IF text = "" THEN ServicePageSize ELSE parseInt(text).n
        offset == OffsetOf(QueryValue(request, "page_token", ""))
        last == IF offset + size < MaxRows THEN offset + size ELSE MaxRows
    IN {[has_items |-> TRUE, items |-> SubSeq(CatalogRows, offset + 1, last),
         has_more |-> last < MaxRows,
         page_token |-> IF last < MaxRows THEN TokenOf(last) ELSE ""]}

\* The answers of the table service a specification lets it give.
ServiceAnswers(request, service) ==
    CASE service = "paged" -> PagedAnswers(request)
      [] service = "any" -> SearchAnswers(request, SomeMissing, BOOLEAN)
      [] OTHER -> SearchAnswers(request, NoneMissing, {TRUE})

\* A mapping that loses the service's page token.
fetchProductsFromFeishuNoToken(data) ==
    [threw |-> ~data.has_items,
     products |-> [i \in 1..Len(data.items) |-> SearchProductOf(data.items[i])],
     hasMore |-> data.has_more,
     nextPageToken |-> ""]

\* fetchProductsFromFeishu on the service's answer, lines 416-439:
\* data.items.map throws when the answer has no item list.
fetchProductsFromFeishu(data) ==
    [threw |-> ~data.has_items,
     products |-> [i \in 1..Len(data.items) |-> SearchProductOf(data.items[i])],
     hasMore |-> data.has_more,
     nextPageToken |-> IF data.page_token # "" THEN data.page_token ELSE ""]

\* getProducts, lines 254-279.
\* params and data record the query parameters received and the answer of
\* the service (NoData when the call failed).
getProducts(pageToken, pageSizeParam, searchTerm, category, service) ==
    /\ listResp = NoRead /\ detailResp = NoRead /\ catResp = NoCat
    /\ LET pageSize == parseInt(IF pageSizeParam # "" THEN pageSizeParam ELSE "9")
           request == SearchRequest(pageToken, pageSize, searchTerm, category)
       IN
       \E tokenCode \in TokenCodes, apiCode \in WriteCodes,
          data \in ServiceAnswers(request, service) :
         LET res == callFeishuBitableApi(tokenCode, apiCode)
             r == fetchProductsFromFeishu(data)
         IN
         catResp' = [op |-> "getProducts",
                     params |-> [pageToken |-> pageToken, pageSize |-> pageSizeParam,
                                 q |-> searchTerm, category |-> category],
                     request |-> request,
                     call |-> Call("search", "", res),
                     data |-> IF res.threw THEN NoData ELSE data,
                     resp |-> IF res.threw \/ r.threw
                                THEN Resp(500, [error |-> "failed"])
                                ELSE Resp(200, [success |-> TRUE, products |-> r.products,
                                                hasMore |-> r.hasMore,
                                                nextPageToken |-> r.nextPageToken])]
    /\ UNCHANGED <<products, addresses, orderRows, uuidCount, req, listResp, detailResp,
                   addrReq, cache, imgReq, pager>>

\* What the table service may answer to GET fields: no item list, no
\* type field, a type field without property, without options, with an empty
\* option list, with options.  An option carries more than the handler
\* returns.
Options == <<[id |-> "o1", name |-> "drink", color |-> 1],
             [id |-> "o2", name |-> "food", color |-> 2]>>
SchemaOptions == [i \in 1..Len(Options) |->
                    [id |-> Options[i].id, name |-> Options[i].name,
                     color |-> Options[i].color, extra |-> "x"]]
SchemaField(name, has_property, has_options, options) ==
    [field_name |-> name, has_property |-> has_property, has_options |-> has_options,
     options |-> options]
NameField == SchemaField("name", FALSE, FALSE, <<>>)
TypeFields == {SchemaField("type", FALSE, FALSE, <<>>),
               SchemaField("type", TRUE, FALSE, <<>>),
               SchemaField("type", TRUE, TRUE, <<>>),
               SchemaField("type", TRUE, TRUE, SchemaOptions),
               SchemaField("type", TRUE, TRUE, SubSeq(SchemaOptions, 2, 2))}
SchemaAnswers ==
    {[has_items |-> FALSE, items |-> <<>>], [has_items |-> TRUE, items |-> <<>>],
     [has_items |-> TRUE, items |-> <<NameField>>]}
    \cup {[has_items |-> TRUE, items |-> <<NameField, f>>] : f \in TypeFields}
    \cup {[has_items |-> TRUE, items |-> <<f, NameField>>] : f \in TypeFields}

\* A category list in which every option keeps only its name.
CategoriesOfNamesOnly(data) ==
    LET found == {i \in 1..Len(data.items) : data.items[i].field_name = "type"} IN
    IF found = {} THEN <<>>
    ELSE LET typeField == data.items[CHOOSE i \in found : \A j \in found : i <= j] IN
         [i \in 1..Len(typeField.options) |->
            [id |-> "", name |-> typeField.options[i].name, color |-> 0]]

\* The categories of lines 289-305: data.items?.find, the test of
\* typeField and typeField.property?.options, and the map over the options.
CategoriesOf(data) ==
    LET found == {i \in 1..Len(data.items) : data.items[i].field_name = "type"} IN
    IF ~data.has_items \/ found = {} THEN <<>>
    ELSE LET typeField == data.items[CHOOSE i \in found : \A j \in found : i <= j] IN
         IF ~typeField.has_property \/ ~typeField.has_options THEN <<>>
         ELSE [i \in 1..Len(typeField.options) |->
                 [id |-> typeField.options[i].id, name |-> typeField.options[i].name,
                  color |-> typeField.options[i].color]]

\* getProductCategories, lines 284-321.
getProductCategories ==
    /\ listResp = NoRead /\ detailResp = NoRead /\ catResp = NoCat
    /\ \E tokenCode \in TokenCodes, apiCode \in WriteCodes, data \in SchemaAnswers :
         LET res == callFeishuBitableApi(tokenCode, apiCode) IN
         catResp' = [op |-> "getProductCategories", schema |-> data,
                     call |-> Call("fields", "", res),
                     resp |-> IF res.threw
                                THEN Resp(500, [error |-> "failed"])
                                ELSE Resp(200, [success |-> TRUE,
                                                categories |-> CategoriesOf(data)])]
    /\ UNCHANGED <<products, addresses, orderRows, uuidCount, req, listResp, detailResp,
                   addrReq, cache, imgReq, pager>>

\* The codes the table service may answer to GET records/<id>.  2544041
\* stands for a failure other than the missing record whose decimal text
\* begins with that of 254404.
RecordCodes(id) == GetRecordCodes(id) \cup {1254607, 2544041}

\* getProductById, lines 326-365.
getProductById(productId) ==
    /\ listResp = NoRead /\ detailResp = NoRead /\ catResp = NoCat
    /\ \E tokenCode \in TokenCodes, apiCode \in RecordCodes(productId) :
         LET res == callFeishuBitableApi(tokenCode, apiCode) IN
         catResp' = [op |-> "getProductById", id |-> productId,
                     call |-> Call("get", productId, res),
                     resp |-> IF res.threw
                                THEN IF MessageIncludesNotFound(res)
                                       THEN Resp(404, [error |-> "product"])
                                       ELSE Resp(500, [error |-> "failed"])
                                ELSE Resp(200, [success |-> TRUE,
                                                product |-> ProductOf(productId,
                                                                      products[productId])])]
    /\ UNCHANGED <<products, addresses, orderRows, uuidCount, req, listResp, detailResp,
                   addrReq, cache, imgReq, pager>>

\* handleProducts, lines 232-249.
handleProducts(Tokens, SizeParams, service) ==
    \/ \E pageToken \in Tokens, pageSizeParam \in SizeParams,
          searchTerm \in SearchTerms, category \in Categories :
          getProducts(pageToken, pageSizeParam, searchTerm, category, service)
    \/ getProductCategories
    \/ \E productId \in ItemIds : getProductById(productId)

\* A caller of GET /api/products that pages through a search: it starts
\* without a page token, re-issues the search with each nextPageToken it
\* receives until hasMore is false, and repeats a call that failed.
PagerSizes == {"", "1", "2", "2x", "abc", "0"}
pagerStart(pageSizeParam, searchTerm, category) ==
    /\ pager.pc = "idle"
    /\ listResp = NoRead /\ detailResp = NoRead /\ catResp = NoCat
    /\ pager' = [pc |-> "next", pageSize |-> pageSizeParam, q |-> searchTerm,
                 category |-> category, token |-> "", received |-> <<>>]
    /\ UNCHANGED <<products, addresses, orderRows, uuidCount, req, listResp, detailResp,
                   addrReq, catResp, cache, imgReq>>

pagerCall ==
    /\ pager.pc = "next"
    /\ getProducts(pager.token, pager.pageSize, pager.q, pager.category, "paged")

pagerReceive ==
    /\ pager.pc = "next"
    /\ catResp.op = "getProducts"
    /\ Len(pager.received) <= MaxRows
    /\ pager' = IF catResp.resp.status = 200
                  THEN [pager EXCEPT
                          !.received = @ \o [i \in 1..Len(catResp.resp.body.products) |->
                                               catResp.resp.body.products[i].id],
                          !.token = catResp.resp.body.nextPageToken,
                          !.pc = IF catResp.resp.body.hasMore THEN "next" ELSE "done"]
                  ELSE pager
    /\ catResp' = NoCat
    /\ UNCHANGED <<products, addresses, orderRows, uuidCount, req, listResp, detailResp,
                   addrReq, cache, imgReq>>

----------------------------------------------------------------------------
\* Address store handlers (user.ts).

AddrBodies == [texts : AddrTexts, is_default : BOOLEAN]

\* The rows of the address table at the start, and the id an INSERT gets:
\* the id column is AUTOINCREMENT, so an id is never given twice.
SeedAddrs == 2
Inserted == {s \in AddrSlots : addrReq[s].op = "create" /\ addrReq[s].resp.status = 201}
NextAddrId == SeedAddrs + Cardinality(Inserted) + 1

AddrReturn(q, resp) == [q EXCEPT !.pc = "done", !.resp = resp]

\* The rows an UPDATE or DELETE with the given WHERE set changes.
RowsOfUser(u) == {a \in AddrIds : addresses[a].user_id = u}

\* createAddress (user.ts 149-191): request.json() and the input check.
CreateBodies == AddrBodies \cup {[texts |-> <<"", "t1", "a1">>, is_default |-> TRUE]}
createAddressParse(s, u, body) ==
    /\ addrReq[s].pc = "idle"
    /\ LET q == [IdleAddrReq EXCEPT !.op = "create", !.user = u, !.body = body] IN
       addrReq' = [addrReq EXCEPT ![s] =
         IF body.texts[1] = "" \/ body.texts[2] = "" \/ body.texts[3] = ""
           THEN AddrReturn(q, Resp(400, [error |-> "input"]))
           ELSE [q EXCEPT !.pc = IF body.is_default THEN "createClear" ELSE "insert"]]
    /\ UNCHANGED <<products, addresses, orderRows, uuidCount, req, listResp, detailResp, catResp, cache, imgReq, pager>>

\* UPDATE addresses SET is_default = FALSE WHERE user_id = ?
createAddressClear(s) ==
    /\ addrReq[s].pc = "createClear"
    /\ addresses' = [a \in AddrIds |->
          IF a \in RowsOfUser(addrReq[s].user)
            THEN [addresses[a] EXCEPT !.is_default = FALSE]
            ELSE addresses[a]]
    /\ addrReq' = [addrReq EXCEPT ![s].pc = "insert", ![s].writes = @ + 1]
    /\ UNCHANGED <<products, orderRows, uuidCount, req, listResp, detailResp, catResp, cache, imgReq, pager>>

\* INSERT INTO addresses (...) VALUES (...), and the 201 response with
\* last_row_id.
createAddressInsert(s) ==
    /\ addrReq[s].pc = "insert"
    /\ NextAddrId <= MaxAddr
    /\ addresses' = [addresses EXCEPT ![NextAddrId] =
          [user_id |-> addrReq[s].user,
           recipient_name |-> addrReq[s].body.texts[1],
           phone |-> addrReq[s].body.texts[2],
           address |-> addrReq[s].body.texts[3],
           is_default |-> addrReq[s].body.is_default]]
    /\ addrReq' = [addrReq EXCEPT ![s] =
          AddrReturn([addrReq[s] EXCEPT !.addressId = NextAddrId, !.writes = @ + 1],
                     Resp(201, [success |-> TRUE]))]
    /\ UNCHANGED <<products, orderRows, uuidCount, req, listResp, detailResp, catResp, cache, imgReq, pager>>

createAddress(s) ==
    \/ \E u \in Users, body \in CreateBodies : createAddressParse(s, u, body)
    \/ createAddressClear(s)
    \/ createAddressInsert(s)

\* updateAddress (user.ts 196-241): request.json(), then the ownership SELECT.
updateAddressSelect(s, u, addressId, body) ==
    /\ addrReq[s].pc = "idle"
    /\ LET q == [IdleAddrReq EXCEPT !.op = "update", !.user = u, !.addressId = addressId,
                                    !.body = body,
                                    !.found = (addresses[addressId].user_id = u)]
       IN addrReq' = [addrReq EXCEPT ![s] =
            IF addresses[addressId].user_id = u
              THEN [q EXCEPT !.pc = IF body.is_default THEN "clear" ELSE "update"]
              ELSE AddrReturn(q, Resp(404, [error |-> "address"]))]
    /\ UNCHANGED <<products, addresses, orderRows, uuidCount, req, listResp, detailResp, catResp, cache, imgReq, pager>>

\* UPDATE addresses SET is_default = FALSE WHERE user_id = ? AND id != ?
updateAddressClear(s) ==
    /\ addrReq[s].pc = "clear"
    /\ addresses' = [a \in AddrIds |->
          IF addresses[a].user_id = addrReq[s].user /\ a # addrReq[s].addressId
            THEN [addresses[a] EXCEPT !.is_default = FALSE]
            ELSE addresses[a]]
    /\ addrReq' = [addrReq EXCEPT ![s].pc = "update", ![s].writes = @ + 1]
    /\ UNCHANGED <<products, orderRows, uuidCount, req, listResp, detailResp, catResp, cache, imgReq, pager>>

\* UPDATE addresses SET recipient_name = ?, phone = ?, address = ?,
\* is_default = ? WHERE id = ? AND user_id = ?
updateAddressWrite(s) ==
    /\ addrReq[s].pc = "update"
    /\ addresses' = [a \in AddrIds |->
          IF a = addrReq[s].addressId /\ addresses[a].user_id = addrReq[s].user
            THEN [user_id |-> addrReq[s].user,
                  recipient_name |-> addrReq[s].body.texts[1],
                  phone |-> addrReq[s].body.texts[2],
                  address |-> addrReq[s].body.texts[3],
                  is_default |-> addrReq[s].body.is_default]
            ELSE addresses[a]]
    /\ addrReq' = [addrReq EXCEPT ![s] =
          AddrReturn([addrReq[s] EXCEPT !.writes = @ + 1], Resp(200, [success |-> TRUE]))]
    /\ UNCHANGED <<products, orderRows, uuidCount, req, listResp, detailResp, catResp, cache, imgReq, pager>>

\* A deleteAddress whose DELETE names the row by its id alone.
deleteAddressAnyUser(s, u, addressId) ==
    /\ addrReq[s].pc = "idle"
    /\ LET q == [IdleAddrReq EXCEPT !.op = "delete", !.user = u, !.addressId = addressId,
                                    !.found = (addresses[addressId].user_id = u)]
       IN IF addresses[addressId].user_id \in Users
            THEN /\ addresses' = [addresses EXCEPT ![addressId] = NoRow]
                 /\ addrReq' = [addrReq EXCEPT ![s] =
                       AddrReturn([q EXCEPT !.writes = 1], Resp(200, [success |-> TRUE]))]
            ELSE /\ addresses' = addresses
                 /\ addrReq' = [addrReq EXCEPT ![s] =
                       AddrReturn(q, Resp(404, [error |-> "address"]))]
    /\ UNCHANGED <<products, orderRows, uuidCount, req, listResp, detailResp, catResp, cache, imgReq, pager>>

\* deleteAddress (user.ts 246-273): DELETE FROM addresses WHERE id = ? AND
\* user_id = ?, and 404 when result.meta.changes is 0.
deleteAddress(s, u, addressId) ==
    /\ addrReq[s].pc = "idle"
    /\ LET q == [IdleAddrReq EXCEPT !.op = "delete", !.user = u, !.addressId = addressId,
                                    !.found = (addresses[addressId].user_id = u)]
       IN IF addresses[addressId].user_id = u
            THEN /\ addresses' = [addresses EXCEPT ![addressId] = NoRow]
                 /\ addrReq' = [addrReq EXCEPT ![s] =
                       AddrReturn([q EXCEPT !.writes = 1], Resp(200, [success |-> TRUE]))]
            ELSE /\ addresses' = addresses
                 /\ addrReq' = [addrReq EXCEPT ![s] =
                       AddrReturn(q, Resp(404, [error |-> "address"]))]
    /\ UNCHANGED <<products, orderRows, uuidCount, req, listResp, detailResp, catResp, cache, imgReq, pager>>

updateAddress(s) ==
    \/ \E u \in Users, addressId \in AddrIds, body \in AddrBodies :
          updateAddressSelect(s, u, addressId, body)
    \/ updateAddressClear(s)
    \/ updateAddressWrite(s)

createOrder(r, Items) ==
    \/ \E u \in Users, kind \in ItemsKinds, addressId \in {NoAddressId} \cup AddrIds :
          createOrderParse(r, u, kind, addressId)
    \/ createOrderAddress(r)
    \/ \E item \in Items, more \in BOOLEAN : createOrderItem(r, item, more)
    \/ createOrderWrite(r)

\* Back-office catalog management (outside this layer) edits a product row.
CatalogEdit(p, stock, price) ==
    /\ products[p] # [stock |-> stock, price |-> price]
    /\ products' = [products EXCEPT ![p] = [stock |-> stock, price |-> price]]
    /\ UNCHANGED <<addresses, orderRows, uuidCount, req, listResp, detailResp, addrReq, catResp, cache, imgReq, pager>>

\* Values of the status field of an order row: the six the order workflow
\* uses, one it does not, and "" for a row without the field.
ExternalStatuses == {"placed", "reviewing", "shipping", "signed", "settled", "cancelled",
                     "refunded", ""}

\* Back-office order handling (outside this layer) sets the status of a
\* stored row.
OrderStatusEdit(k, status) ==
    /\ k \in 1..Len(orderRows)
    /\ orderRows[k].status # status
    /\ orderRows' = [orderRows EXCEPT ![k].status = status]
    /\ UNCHANGED <<products, addresses, uuidCount, req, listResp, detailResp, addrReq,
                   catResp, cache, imgReq, pager>>

\* Concurrent order writers beside catalog management.
Next ==
    \/ \E r \in Reqs : createOrder(r, PositiveItems)
    \/ \E p \in ProductIds, stock \in StockVals, price \in PriceVals :
          CatalogEdit(p, stock, price)

Spec == Init /\ [][Next]_vars

\* The order writer and the order reader.
NextRead ==
    \/ \E r \in Reqs : createOrder(r, AllItems)
    \/ \E u \in Users : getUserOrders(u)
    \/ \E u \in Users, orderId \in PathIds : handleOrdersGetById(u, orderId)

SpecRead == Init /\ [][NextRead]_vars

\* The order writers alone: the product table never changes.
NextWriter == \E r \in Reqs : createOrder(r, PositiveItems)

SpecWriter == Init /\ [][NextWriter]_vars

----------------------------------------------------------------------------
\* Media proxy: handleImageProxy (products.ts 442-486), one action per await.

\* The bytes the media service holds under a file token, and what its
\* download endpoint may answer: the file, with or without a Cache-Control
\* header of its own, or a non-success status.
MediaBytes(fileToken) == <<"bytes", fileToken>>
MediaAnswers(fileToken) ==
    { ImageResponse(200, MediaBytes(fileToken), c) : c \in {"", "no-store"} }
    \cup { ImageResponse(404, <<"bytes", "">>, "") }
Ok(response) == response.status >= 200 /\ response.status <= 299

\* Mutant: every file token is cached under the first token's URL.
CacheKeySharedUrl(fileToken) == ProxyUrl("f1")

\* cacheKey = new Request(url.toString(), request), line 451.
CacheKey(fileToken) == ProxyUrl(fileToken)

\* Mutant: the media response is passed on with the headers it came with.
ProxyResponseAsFetched(feishuResponse) ==
    ImageResponse(feishuResponse.status, feishuResponse.body, feishuResponse.cacheControl)

\* The response built from a successful media response, lines 470-477.
ProxyResponse(feishuResponse) ==
    ImageResponse(feishuResponse.status, feishuResponse.body, "public, max-age=86400")

ImgReturn(q, resp) == [q EXCEPT !.pc = "done", !.resp = resp]
ImgFailed == ImageResponse(500, <<"text", "Failed to fetch image">>, "")

\* Mutant: the handler never looks into the cache.
handleImageProxyMatchNoCache(i, fileToken) ==
    /\ imgReq[i].pc = "idle"
    /\ imgReq' = [imgReq EXCEPT ![i] =
          IF fileToken = ""
            THEN ImgReturn(imgReq[i], ImageResponse(400, <<"text", "Missing file_token">>, ""))
            ELSE [imgReq[i] EXCEPT !.fileToken = fileToken, !.pc = "token"]]
    /\ UNCHANGED <<products, addresses, orderRows, uuidCount, req, listResp, detailResp,
                   addrReq, catResp, cache, pager>>

\* Lines 443-456: the file_token check and cache.match.
handleImageProxyMatch(i, fileToken) ==
    /\ imgReq[i].pc = "idle"
    /\ imgReq' = [imgReq EXCEPT ![i] =
          IF fileToken = ""
            THEN ImgReturn(imgReq[i], ImageResponse(400, <<"text", "Missing file_token">>, ""))
            ELSE LET response == cache[CacheKey(fileToken)]
                     q == [imgReq[i] EXCEPT !.fileToken = fileToken]
                 IN IF response # NoEntry
                      THEN ImgReturn([q EXCEPT !.hit = TRUE], response)
                      ELSE [q EXCEPT !.pc = "token"]]
    /\ UNCHANGED <<products, addresses, orderRows, uuidCount, req, listResp, detailResp,
                   addrReq, catResp, cache, pager>>

\* Line 459: getFeishuAccessToken; a throw goes to the catch of 482-485.
handleImageProxyToken(i) ==
    /\ imgReq[i].pc = "token"
    /\ \E tokenCode \in TokenCodes :
         LET tok == getFeishuAccessToken(tokenCode)
             q == [imgReq[i] EXCEPT !.fetches = Append(@, "tenant_access_token")]
         IN imgReq' = [imgReq EXCEPT ![i] =
               IF tok.threw THEN ImgReturn(q, ImgFailed) ELSE [q EXCEPT !.pc = "fetch"]]
    /\ UNCHANGED <<products, addresses, orderRows, uuidCount, req, listResp, detailResp,
                   addrReq, catResp, cache, pager>>

\* Lines 460-477: the media download, the ok test and the new response.
handleImageProxyFetch(i) ==
    /\ imgReq[i].pc = "fetch"
    /\ \E feishuResponse \in MediaAnswers(imgReq[i].fileToken) :
         LET q == [imgReq[i] EXCEPT !.fetches = Append(@, "medias")] IN
         imgReq' = [imgReq EXCEPT ![i] =
            IF ~Ok(feishuResponse)
              THEN ImgReturn(q, ImgFailed)
              ELSE [q EXCEPT !.response = ProxyResponse(feishuResponse), !.pc = "put"]]
    /\ UNCHANGED <<products, addresses, orderRows, uuidCount, req, listResp, detailResp,
                   addrReq, catResp, cache, pager>>

\* Lines 479-481: cache.put of a clone, then the response is returned.
handleImageProxyPut(i) ==
    /\ imgReq[i].pc = "put"
    /\ cache' = [cache EXCEPT ![CacheKey(imgReq[i].fileToken)] = imgReq[i].response]
    /\ imgReq' = [imgReq EXCEPT ![i] =
          ImgReturn([imgReq[i] EXCEPT !.puts = @ + 1], imgReq[i].response)]
    /\ UNCHANGED <<products, addresses, orderRows, uuidCount, req, listResp, detailResp,
                   addrReq, catResp, pager>>

handleImageProxy(i) ==
    \/ \E fileToken \in FileTokens \cup {""} : handleImageProxyMatch(i, fileToken)
    \/ handleImageProxyToken(i)
    \/ handleImageProxyFetch(i)
    \/ handleImageProxyPut(i)

\* The edge cache drops an entry (expiry or eviction).
CacheEvict(k) ==
    /\ cache[k] # NoEntry
    /\ cache' = [cache EXCEPT ![k] = NoEntry]
    /\ UNCHANGED <<products, addresses, orderRows, uuidCount, req, listResp, detailResp,
                   addrReq, catResp, imgReq, pager>>

\* Concurrent image proxy calls over the edge cache.
NextImage ==
    \/ \E i \in ImgSlots : handleImageProxy(i)
    \/ \E k \in CacheKeys : CacheEvict(k)

SpecImage == Init /\ [][NextImage]_vars

\* The same, with every started call scheduled until it returns.
SpecImageFair ==
    SpecImage /\ \A i \in ImgSlots :
                    WF_vars(handleImageProxyToken(i) \/ handleImageProxyFetch(i)
                            \/ handleImageProxyPut(i))

\* The order writers, the order reader and the catalog query, with nobody
\* else editing the product table.
NextCatalog ==
    \/ \E r \in Reqs : createOrder(r, PositiveItems)
    \/ \E u \in Users : getUserOrders(u)
    \/ \E u \in Users, orderId \in PathIds : handleOrdersGetById(u, orderId)
    \/ handleProducts({""}, {"", "2"}, "full")

SpecCatalog == Init /\ [][NextCatalog]_vars

\* The catalog handlers alone, over every query parameter and every answer
\* of the table service.
NextSearch == handleProducts(PageTokens, PageSizeParams, "any")
SpecSearch == Init /\ [][NextSearch]_vars

\* A caller paging through the product search.
NextPaging ==
    \/ \E pageSizeParam \in PagerSizes, searchTerm \in SearchTerms, category \in Categories :
          pagerStart(pageSizeParam, searchTerm, category)
    \/ pagerCall
    \/ pagerReceive
SpecPaging == Init /\ [][NextPaging]_vars

\* One order writer, the order reader and back-office order handling.
NextStatus ==
    \/ createOrder(1, PositiveItems)
    \/ \E k \in 1..MaxItems, status \in ExternalStatuses : OrderStatusEdit(k, status)
    \/ \E u \in Users : getUserOrders(u)

SpecStatus == Init /\ [][NextStatus]_vars

\* Two order writers, back-office status changes and the order list.
GroupStatuses == {"placed", "shipping"}
NextGroup ==
    \/ \E r \in Reqs : createOrder(r, PositiveItems)
    \/ \E k \in 1..(NumReq * MaxItems), status \in GroupStatuses : OrderStatusEdit(k, status)
    \/ \E u \in Users : getUserOrders(u)

SpecGroup == Init /\ [][NextGroup]_vars

\* One order writer and the address handlers.
NextAddress ==
    \/ createOrder(1, AllItems)
    \/ \E s \in AddrSlots : updateAddress(s)
    \/ \E s \in AddrSlots, u \in Users, addressId \in AddrIds : deleteAddress(s, u, addressId)

SpecAddress == Init /\ [][NextAddress]_vars

\* Concurrent address handlers.
NextDefault ==
    \/ \E s \in AddrSlots : createAddress(s)
    \/ \E s \in AddrSlots : updateAddress(s)
    \/ \E s \in AddrSlots, u \in Users, addressId \in AddrIds : deleteAddress(s, u, addressId)

SpecDefault == Init /\ [][NextDefault]_vars

----------------------------------------------------------------------------
\* Properties.

Done(r) == req[r].pc = "done"
Started(r) == req[r].pc # "idle"
BatchIssued(r) == \E i \in 1..Len(req[r].calls) : req[r].calls[i].op = "batch"
Range(f) == { f[i] : i \in DOMAIN f }

\* Every row of the order table was stored for one of the calls.
RowsAccounted == \A k \in 1..Len(orderRows) : \E r \in Reqs : orderRows[k] \in Range(req[r].wrote)

\* C1: a createOrder call that fetched, for some item, a product row whose
\* stock is below the item's quantity has ended with the insufficient-stock
\* response (400), has issued no batch-create and has had no row stored, the
\* items validated before included.
C1_InsufficientStockFailsWholeCall ==
    /\ RowsAccounted
    /\ \A r \in Reqs :
         (\E i \in 1..Len(req[r].reads) : req[r].reads[i].quantity > req[r].reads[i].stock)
           => /\ Done(r)
              /\ req[r].resp.status = 400
              /\ req[r].resp.body.error = "stock"
              /\ ~BatchIssued(r)
              /\ req[r].wrote = <<>>
              /\ \A k \in 1..Len(orderRows) : orderRows[k].orderId # req[r].orderId

\* C1 witness: a call ended 400 on its second item, after its first item had
\* passed the stock check, and nothing was stored for it.
C1_Witness ==
    \E r \in Reqs :
       /\ Done(r) /\ req[r].resp.status = 400 /\ req[r].resp.body.error = "stock"
       /\ Len(req[r].validatedItems) = 1 /\ Len(req[r].reads) = 2
       /\ req[r].reads[2].quantity > req[r].reads[2].stock
       /\ req[r].wrote = <<>>

\* The address the call names is missing from the store or is another user's.
AddressNotOwned(r) ==
    \/ req[r].addressId \notin AddrIds
    \/ addresses[req[r].addressId].user_id # req[r].user

\* C2 as stated: every createOrder call given an addressId that does not
\* exist or belongs to another user ends 404, with no table-client call and
\* no address field in the response.
C2_Original ==
    \A r \in Reqs :
       (Done(r) /\ req[r].addressId # NoAddressId /\ AddressNotOwned(r))
         => /\ req[r].resp.status = 404
            /\ req[r].calls = <<>>
            /\ req[r].resp.body = [error |-> "address"]

\* C2 amended: a createOrder call with a non-empty items array and an
\* addressId that does not exist or belongs to another user makes no
\* table-client call (no product fetch, no batch-create), has no row stored
\* and ends 404 with a response that holds the error text alone.
C2_ForeignAddressNotFound ==
    \A r \in Reqs :
       (Started(r) /\ req[r].items.kind = "nonempty"
          /\ req[r].addressId # NoAddressId /\ AddressNotOwned(r))
         => /\ req[r].pc \in {"address", "done"}
            /\ req[r].calls = <<>>
            /\ req[r].wrote = <<>>
            /\ Done(r) => req[r].resp = Resp(404, [error |-> "address"])

\* C2 witness: a call naming another user's existing address has ended 404.
C2_Witness ==
    \E r \in Reqs :
       /\ Done(r) /\ req[r].items.kind = "nonempty"
       /\ req[r].addressId \in AddrIds
       /\ addresses[req[r].addressId].user_id \in Users \ {req[r].user}
       /\ req[r].resp.status = 404 /\ req[r].dbReads = 1

RECURSIVE SumAmounts(_)
SumAmounts(items) == IF items = <<>> THEN 0 ELSE Head(items).amount + SumAmounts(Tail(items))

OwnsOrder(u, orderId) ==
    \E k \in 1..Len(orderRows) :
       orderRows[k].orderId = orderId /\ orderRows[k].username = Username(u)

\* C4 as stated: GET /api/orders/<id> answers 404 whenever the requester owns
\* no order of that identifier.
C4_Original ==
    (detailResp.user # 0 /\ ~OwnsOrder(detailResp.user, detailResp.orderId))
      => detailResp.resp.status = 404

RECURSIVE SumQuantity(_, _)
SumQuantity(rows, p) ==
    IF rows = <<>> THEN 0
    ELSE (IF Head(rows).product = p THEN Head(rows).quantity ELSE 0)
           + SumQuantity(Tail(rows), p)

\* C5 as stated: the quantities of the stored rows of a product never add up
\* to more than the product's stock.
C5_Original ==
    \A p \in ProductIds : SumQuantity(orderRows, p) <= OrDefault(products[p].stock, 0)

GetCalls(r) == { i \in 1..Len(req[r].calls) : req[r].calls[i].op = "get" }
FetchedCalls(r) == { i \in GetCalls(r) : req[r].calls[i].sent /\ req[r].calls[i].code = 0 }
LastCall(q) == q.calls[Len(q.calls)]

\* Each product row a call fetched is one item read; a call that is about to
\* write, or has issued its batch-create, fetched exactly one row per item.
StockReadOncePerItem ==
    \A r \in Reqs :
       /\ Cardinality(FetchedCalls(r)) = Len(req[r].reads)
       /\ Len(req[r].validatedItems) <= Len(req[r].reads)
       /\ (req[r].pc = "write" \/ BatchIssued(r))
            => /\ Len(req[r].reads) = Len(req[r].validatedItems)
               /\ Cardinality(GetCalls(r)) = Len(req[r].validatedItems)

\* The step of a call whose items are all validated is its batch-create, and
\* its outcome is decided by the service's answer alone: accepted, the call
\* ends 201 with one row per validated item, of that item's product and
\* quantity; otherwise it ends 500.
WriteDecidedByService ==
    \A r \in Reqs :
       (req[r].pc = "write" /\ req'[r] # req[r]) =>
          /\ Len(req'[r].calls) = Len(req[r].calls) + 1
          /\ LastCall(req'[r]).op = "batch"
          /\ IF LastCall(req'[r]).sent /\ LastCall(req'[r]).code = 0
               THEN /\ req'[r].resp.status = 201
                    /\ Len(req'[r].wrote) = Len(req[r].validatedItems)
                    /\ \A i \in 1..Len(req'[r].wrote) :
                         /\ req'[r].wrote[i].product = req[r].validatedItems[i].id
                         /\ req'[r].wrote[i].quantity = req[r].validatedItems[i].quantity
               ELSE req'[r].resp.status = 500

\* C6: stock is read once per item, at validation; whatever the product
\* table holds when the batch-create is issued, the call succeeds if the
\* service accepts the batch and the rows are those of the validated items.
C6_StockReadAtValidationOnly ==
    [] StockReadOncePerItem /\ [][WriteDecidedByService]_vars

\* C6 witness: two calls each passed the stock check for the single unit in
\* stock before any row was stored, and both ended 201.
C6_Witness ==
    /\ NumReq >= 2
    /\ \A r \in {1, 2} :
         /\ Done(r) /\ req[r].resp.status = 201
         /\ req[r].reads = <<[id |-> "p1", quantity |-> 1, stock |-> 1,
                               price |-> req[r].reads[1].price]>>
         /\ req[r].checkedAt = 0
         /\ Len(req[r].wrote) = 1
    /\ Len(orderRows) = 2

\* C7: a call to which the service answered code 254404 for an item's record
\* ended there with 404 naming that item's id, with no batch-create issued
\* and no row stored.
C7_UnknownProductFailsWholeCall ==
    \A r \in Reqs : \A i \in GetCalls(r) :
       (req[r].calls[i].sent /\ req[r].calls[i].code = NotFoundCode)
         => /\ Done(r)
            /\ i = Len(req[r].calls)
            /\ req[r].resp = Resp(404, [error |-> "product", id |-> req[r].calls[i].id])
            /\ req[r].wrote = <<>>
            /\ \A k \in 1..Len(orderRows) : orderRows[k].orderId # req[r].orderId

\* C7 witness: the second item of a call did not resolve after the first had
\* been validated.
C7_Witness ==
    \E r \in Reqs :
       /\ Done(r) /\ Len(req[r].validatedItems) = 1 /\ Len(req[r].calls) = 2
       /\ req[r].calls[2].code = NotFoundCode
       /\ req[r].resp.status = 404 /\ req[r].resp.body.id = "px"

\* C8: a call whose items are absent, not an array or empty, or whose
\* addressId is missing, ends 400 without an address lookup and without a
\* table-client call.
C8_InvalidInputRejectedFirst ==
    \A r \in Reqs :
       (Started(r) /\ (req[r].items.kind \in {"absent", "nonarray", "empty"}
                          \/ req[r].addressId = NoAddressId))
         => /\ Done(r)
            /\ req[r].resp = Resp(400, [error |-> "empty"])
            /\ req[r].dbReads = 0
            /\ req[r].calls = <<>>
            /\ req[r].wrote = <<>>

\* C8 witness: a call with items and no addressId was rejected.
C8_Witness ==
    \E r \in Reqs :
       /\ Done(r) /\ req[r].items.kind = "nonempty" /\ req[r].addressId = NoAddressId
       /\ req[r].resp.status = 400

\* Stored rows stay as they are.
RowsKept ==
    /\ Len(orderRows') >= Len(orderRows)
    /\ \A k \in 1..Len(orderRows) : orderRows'[k] = orderRows[k]

\* C9: the price of each stored row is the price of the product row fetched
\* for that item during the call's validation, and stored rows never change.
C9_PriceSnapshot ==
    /\ [] (\A r \in Reqs : \A i \in 1..Len(req[r].wrote) :
              /\ req[r].wrote[i].product = req[r].reads[i].id
              /\ req[r].wrote[i].price = req[r].reads[i].price)
    /\ [][RowsKept]_vars

\* C9 witness: a stored row holds a price the product no longer has.
C9_Witness ==
    \E r \in Reqs :
       /\ Done(r) /\ req[r].resp.status = 201
       /\ orderRows # <<>>
       /\ req[r].wrote[1] \in Range(orderRows)
       /\ req[r].wrote[1].price # products[req[r].wrote[1].product].price

\* The address lookup of a call returns the texts the store holds then.
AddressReadFromStore ==
    \A r \in Reqs :
       (req[r].pc = "address" /\ req'[r].pc = "items") =>
          /\ req'[r].address.recipient_name = addresses[req[r].addressId].recipient_name
          /\ req'[r].address.phone = addresses[req[r].addressId].phone
          /\ req'[r].address.address = addresses[req[r].addressId].address

\* C10: each stored row holds the recipient name, phone and address text the
\* call read from the address store, and no address id; address handlers
\* leave the stored rows as they are.
C10_AddressDenormalized ==
    /\ [] (\A r \in Reqs : \A i \in 1..Len(req[r].wrote) :
              /\ req[r].wrote[i].recipient = req[r].address.recipient_name
              /\ req[r].wrote[i].phone = req[r].address.phone
              /\ req[r].wrote[i].address = req[r].address.address
              /\ "addressId" \notin DOMAIN req[r].wrote[i])
    /\ [][RowsKept /\ AddressReadFromStore]_vars

\* C10 witness: the address of a stored order was updated afterwards and the
\* row still holds the old texts.
C10_Witness ==
    \E r \in Reqs :
       /\ Done(r) /\ req[r].resp.status = 201
       /\ req[r].wrote[1] \in Range(orderRows)
       /\ addresses[req[r].addressId].user_id = req[r].user
       /\ addresses[req[r].addressId].recipient_name # req[r].wrote[1].recipient
       /\ \E s \in AddrSlots : addrReq[s].op = "update" /\ addrReq[s].resp.status = 200

BatchCalls(r) == { i \in 1..Len(req[r].calls) : req[r].calls[i].op = "batch" }

\* C11: a call that passed validation and ended handed the table client one
\* batch_create, as its last call, holding one record per validated item in
\* the items' order; when that call failed the response is 500; the rows the
\* service stored for it, also those of a batch applied in part, are still
\* in the order table, and the call made no other kind of table call.
C11_SingleBatchNoRollback ==
    \A r \in Reqs :
       /\ \A i \in 1..Len(req[r].calls) : req[r].calls[i].op \in {"get", "batch"}
       /\ Cardinality(BatchCalls(r)) <= 1
       /\ (Done(r) /\ req[r].validatedItems # <<>> /\ ~req[r].items.more
             /\ Len(req[r].validatedItems) = Len(req[r].reads)
             /\ Cardinality(GetCalls(r)) = Len(req[r].reads))
            => /\ BatchCalls(r) = {Len(req[r].calls)}
               /\ Len(req[r].batch) = Len(req[r].validatedItems)
               /\ \A i \in 1..Len(req[r].batch) :
                    /\ req[r].batch[i].product = req[r].validatedItems[i].id
                    /\ req[r].batch[i].quantity = req[r].validatedItems[i].quantity
                    /\ req[r].batch[i].orderId = req[r].orderId
               /\ LET c == LastCall(req[r]) IN
                    IF c.sent /\ c.code = 0
                      THEN req[r].resp.status = 201
                      ELSE req[r].resp.status = 500
               /\ \A i \in 1..Len(req[r].wrote) : req[r].wrote[i] \in Range(orderRows)

\* C11 witness: a two-item batch the service answered with an error after
\* storing the first row; the call ended 500 and the row stayed.
C11_Witness ==
    \E r \in Reqs :
       /\ Done(r) /\ req[r].resp.status = 500
       /\ Len(req[r].batch) = 2 /\ Len(req[r].wrote) = 1
       /\ LastCall(req[r]).op = "batch" /\ LastCall(req[r]).sent
       /\ req[r].wrote[1] \in Range(orderRows)

\* C12: no step of the order writer, the order reader or the catalog query
\* changes a product row.
C12_ProductTableNeverWritten == [][products' = products]_vars

\* C12 witness: after an order for the single unit in stock was stored, a
\* second order for the same unit read the same stock, passed the same check
\* and was stored too.
C12_Witness ==
    /\ NumReq >= 2
    /\ \A r \in {1, 2} :
         /\ Done(r) /\ req[r].resp.status = 201
         /\ Len(req[r].reads) = 1
         /\ req[r].reads[1].id = "p1" /\ req[r].reads[1].quantity = 1
         /\ req[r].reads[1].stock = 1
    /\ \E r \in {1, 2} : req[r].checkedAt >= 1
    /\ products["p1"].stock = 1

\* The status vocabulary of the response and the pairs the mapping is fixed
\* to.
FrontendStatuses == {"pending", "processing", "shipped", "received", "completed", "cancelled"}
StatusPairs == { <<"placed", "pending">>, <<"reviewing", "processing">>,
                 <<"shipping", "shipped">>, <<"signed", "received">>,
                 <<"settled", "completed">>, <<"cancelled", "cancelled">> }

\* The first row the search returned for an order id.
FirstFound(orderId) ==
    listResp.found[CHOOSE i \in 1..Len(listResp.found) :
                     /\ listResp.found[i].orderId[1].text = orderId
                     /\ \A j \in 1..(i - 1) : listResp.found[j].orderId[1].text # orderId]

\* C13: the status of every aggregate of a list response is one of the six
\* frontend values: the one paired with the external status of the order's
\* first row when that status is one of the six known, pending otherwise.
C13_StatusMappingTotal ==
    listResp.resp.status = 200 =>
       \A i \in 1..Len(listResp.resp.body.orders) :
          LET o == listResp.resp.body.orders[i]
              ext == FirstFound(o.id).status
          IN /\ o.status \in FrontendStatuses
             /\ \A pair \in StatusPairs : ext = pair[1] => o.status = pair[2]
             /\ (\A pair \in StatusPairs : ext # pair[1]) => o.status = "pending"

\* C13 witness: a listed two-row order whose first row carries a status
\* outside the known six.
C13_Witness ==
    /\ listResp.resp.status = 200
    /\ Len(listResp.resp.body.orders) = 1
    /\ Len(listResp.found) = 2
    /\ listResp.found[1].status = "refunded"
    /\ listResp.resp.body.orders[1].status = "pending"

\* C14 (as stated): a GET /api/orders/<id> by the user whose createOrder call
\* returned that id, made after the order's rows were stored, answers 200
\* with the order of that id whose product is that of a stored row.
C14_Original ==
    \A r \in Reqs :
       (/\ detailResp.user # 0
        /\ Done(r) /\ req[r].resp.status = 201
        /\ detailResp.user = req[r].user
        /\ detailResp.orderId = req[r].orderId
        /\ \E k \in 1..detailResp.seen : orderRows[k].orderId = req[r].orderId)
         => /\ detailResp.resp.status = 200
            /\ detailResp.resp.body.order.orderId = req[r].orderId
            /\ \E i \in 1..Len(req[r].wrote) :
                  detailResp.resp.body.order.productId = req[r].wrote[i].product

RECURSIVE SumQuantityTimesPrice(_, _)
\* The sum over line items of quantity times price.
SumQuantityTimesPrice(items, price) ==
    IF items = <<>> THEN 0
    ELSE Head(items).quantity * price + SumQuantityTimesPrice(Tail(items), price)

\* C15 (as stated): in a GET /api/orders answered after a successful
\* createOrder call of the same user stored its rows, each line item of the
\* order's aggregate has an amount equal to its quantity times the price read
\* for its product at the call's validation, and the total is the sum of
\* quantity times that price over the line items.
C15_Original ==
    \A r \in Reqs :
       (/\ Done(r) /\ req[r].resp.status = 201
        /\ listResp.user = req[r].user
        /\ listResp.resp.status = 200
        /\ \E k \in 1..listResp.seen : orderRows[k] \in Range(req[r].wrote))
         => \A i \in 1..Len(listResp.resp.body.orders) :
              LET o == listResp.resp.body.orders[i] IN
              o.id = req[r].orderId =>
                /\ \A j \in 1..Len(o.items) :
                     \E n \in 1..Len(req[r].reads) :
                        /\ req[r].reads[n].id = o.items[j].productId
                        /\ o.items[j].amount = o.items[j].quantity * req[r].reads[n].price
                /\ \E n \in 1..Len(req[r].reads) :
                     o.total = SumQuantityTimesPrice(o.items, req[r].reads[n].price)

\* A table-client call as a caller of the record endpoint must treat it:
\* failed when the envelope code is not 0, a missing record when the code is
\* 254404.
CallFailedRight(c) == (c.sent /\ c.code # 0) => c.threw
CallIsNotFound(c) == c.sent /\ c.code = NotFoundCode

\* C16 (as stated): every table-client call answered with a code other than
\* 0 fails; getProductById and createOrder answer 404 exactly when the code
\* was 254404, and a 5xx status for every other failed call.
C16_Original ==
    /\ catResp.op = "getProductById" =>
         /\ CallFailedRight(catResp.call)
         /\ (catResp.resp.status = 404) = CallIsNotFound(catResp.call)
         /\ (catResp.call.threw /\ ~CallIsNotFound(catResp.call))
              => catResp.resp.status >= 500
    /\ \A r \in Reqs : \A i \in 1..Len(req[r].calls) :
         LET c == req[r].calls[i] IN
         /\ CallFailedRight(c)
         /\ (c.op = "get" /\ CallIsNotFound(c)) => req[r].resp.status = 404
         /\ (c.threw /\ ~CallIsNotFound(c)) => req[r].resp.status >= 500

\* One table-client call: its first outbound request is the token
\* acquisition and its only one; a second request, if any, is the single API
\* request; a failed token acquisition sends no API request; a failure of
\* either step is thrown.
OneTokenOneRequest(c) ==
    /\ Len(c.fetches) \in {1, 2}
    /\ c.fetches[1] = "tenant_access_token"
    /\ Len(c.fetches) = 2 => c.fetches[2] = "bitable"
    /\ c.sent = (Len(c.fetches) = 2)
    /\ c.token # 0 => (~c.sent /\ c.threw)
    /\ (c.sent /\ c.code # 0) => c.threw

\* C17: every table-client call of a createOrder call acquired its own token
\* and sent at most one API request; a call that threw was the handler's
\* last, and the handler ended with an error response.
C17_TokenPerCallNoRetry ==
    \A r \in Reqs : \A i \in 1..Len(req[r].calls) :
       /\ OneTokenOneRequest(req[r].calls[i])
       /\ req[r].calls[i].threw =>
            /\ i = Len(req[r].calls)
            /\ Done(r) /\ req[r].resp.status \in {404, 500}

\* C17 witness: the second table-client call of a handler failed at its own
\* token acquisition after the first call had acquired a token and been
\* answered.
C17_Witness ==
    \E r \in Reqs :
       /\ Len(req[r].calls) = 2
       /\ req[r].calls[1].fetches = <<"tenant_access_token", "bitable">>
       /\ ~req[r].calls[1].threw
       /\ req[r].calls[2].fetches = <<"tenant_access_token">>
       /\ req[r].calls[2].token # 0
       /\ req[r].resp.status = 500

ImgDone(i) == imgReq[i].pc = "done"

\* The first step of an image proxy call that finds an entry under its
\* request URL returns that entry as it is and leaves the cache alone.
HitReturnsEntry ==
    \A i \in ImgSlots : \A f \in FileTokens :
       (/\ imgReq[i].pc = "idle" /\ imgReq'[i].pc # "idle"
        /\ imgReq'[i].fileToken = f
        /\ cache[ProxyUrl(f)] # NoEntry)
         => /\ imgReq'[i].hit
            /\ imgReq'[i].pc = "done"
            /\ imgReq'[i].resp = cache[ProxyUrl(f)]
            /\ cache' = cache

\* C18: an image proxy call that finds an entry under its request URL
\* returns it unmodified; a call that hit made no token acquisition, no
\* media fetch and no cache write.
C18_CacheHitReturnsStored ==
    /\ [] (\A i \in ImgSlots :
              imgReq[i].hit => /\ ImgDone(i)
                               /\ imgReq[i].fetches = <<>>
                               /\ imgReq[i].puts = 0)
    /\ [][HitReturnsEntry]_vars

\* C18 witness: a call was answered from the entry an earlier call stored.
C18_Witness ==
    \E i, j \in ImgSlots :
       /\ i # j
       /\ ImgDone(i) /\ imgReq[i].puts = 1
       /\ ImgDone(j) /\ imgReq[j].hit /\ imgReq[j].fileToken = imgReq[i].fileToken
       /\ imgReq[j].resp = imgReq[i].resp
       /\ imgReq[j].resp.status = 200

\* A step that puts a response into the cache is the last step of a call
\* whose media download succeeded, and stores the response the call returns,
\* with the 24-hour public directive.
PutOnlyAfterSuccess ==
    \A k \in CacheKeys :
       (cache'[k] # cache[k] /\ cache'[k] # NoEntry) =>
          \E i \in ImgSlots :
             /\ imgReq[i].pc = "put" /\ imgReq'[i].pc = "done"
             /\ k = ProxyUrl(imgReq[i].fileToken)
             /\ imgReq[i].fetches = <<"tenant_access_token", "medias">>
             /\ Ok(cache'[k])
             /\ cache'[k].cacheControl = "public, max-age=86400"
             /\ imgReq'[i].resp = cache'[k]

\* A call that ends at its token acquisition or at its media download ends
\* with the media-fetch error and leaves the cache as it is.
FailureLeavesCache ==
    \A i \in ImgSlots :
       (imgReq[i].pc \in {"token", "fetch"} /\ imgReq'[i].pc = "done")
         => /\ imgReq'[i].resp.status = 500
            /\ cache' = cache

\* C19: on a miss the cache is written only after a successful media
\* download, with the response the call returns, carrying the 24-hour public
\* directive; a failed token acquisition or a non-success download ends the
\* call with status 500, the cache untouched.
C19_MissCachesOnlySuccess ==
    /\ [] (\A i \in ImgSlots :
              (ImgDone(i) /\ ~imgReq[i].hit /\ imgReq[i].fileToken # "") =>
                 IF imgReq[i].resp.status = 500
                   THEN imgReq[i].puts = 0
                   ELSE /\ imgReq[i].puts = 1
                        /\ imgReq[i].resp.status = 200
                        /\ imgReq[i].resp.cacheControl = "public, max-age=86400")
    /\ [][PutOnlyAfterSuccess /\ FailureLeavesCache]_vars

\* C19 witness: one call stored and returned the image, another ended at a
\* non-success download with nothing stored under its URL.
C19_Witness ==
    \E i, j \in ImgSlots :
       /\ ImgDone(i) /\ imgReq[i].puts = 1
       /\ cache[ProxyUrl(imgReq[i].fileToken)] = imgReq[i].resp
       /\ ImgDone(j) /\ imgReq[j].fetches = <<"tenant_access_token", "medias">>
       /\ imgReq[j].resp.status = 500
       /\ imgReq[j].fileToken # imgReq[i].fileToken
       /\ cache[ProxyUrl(imgReq[j].fileToken)] = NoEntry

\* A put over an existing entry stores what the entry already holds.
OverwriteIsIdentical ==
    \A k \in CacheKeys :
       (cache[k] # NoEntry /\ cache'[k] # NoEntry) => cache'[k] = cache[k]

\* C20: however concurrent image proxy calls interleave, every started call
\* returns a response; the entry under a URL, if any, holds the bytes the
\* media service holds for that URL's file token; and a put over an existing
\* entry leaves its content as it was.
C20_ConcurrentMissesHarmless ==
    /\ [] (\A k \in CacheKeys :
              cache[k] # NoEntry => /\ cache[k].status = 200
                                    /\ cache[k].body = MediaBytes(k.file_token))
    /\ [][OverwriteIsIdentical]_vars
    /\ \A i \in ImgSlots :
         (imgReq[i].pc # "idle") ~> (ImgDone(i) /\ imgReq[i].resp.status \in {200, 400, 500})

\* C20 witness: two calls for the same file token both missed, both
\* downloaded and both put; the entry is the one response both returned.
C20_Witness ==
    /\ NumImg >= 2
    /\ \A i \in {1, 2} : ImgDone(i) /\ imgReq[i].puts = 1 /\ imgReq[i].fileToken = "f1"
    /\ imgReq[1].resp = imgReq[2].resp
    /\ cache[ProxyUrl("f1")] = imgReq[1].resp

\* C21: the search request carries a 'contains' condition on the product
\* name exactly when the search term is non-empty and an 'is' condition on
\* the type exactly when the category is non-empty, the conditions are joined
\* by 'and', and there is no filter at all when both are empty.
SearchConditions == IF catResp.request.filter = <<>> THEN <<>>
                    ELSE catResp.request.filter[1].conditions
HasCondition(field, operator, value) ==
    \E i \in 1..Len(SearchConditions) :
       SearchConditions[i] = [field_name |-> field, operator |-> operator, value |-> <<value>>]
C21_FilterFromTermAndCategory ==
    catResp.op = "getProducts" =>
      /\ (catResp.request.filter = <<>>) = (catResp.params.q = "" /\ catResp.params.category = "")
      /\ Len(catResp.request.filter) <= 1
      /\ catResp.request.filter # <<>> => catResp.request.filter[1].conjunction = "and"
      /\ (\E i \in 1..Len(SearchConditions) : SearchConditions[i].operator = "contains")
           = (catResp.params.q # "")
      /\ (\E i \in 1..Len(SearchConditions) : SearchConditions[i].operator = "is")
           = (catResp.params.category # "")
      /\ catResp.params.q # "" => HasCondition("name", "contains", catResp.params.q)
      /\ catResp.params.category # "" => HasCondition("type", "is", catResp.params.category)
      /\ Len(SearchConditions) = (IF catResp.params.q # "" THEN 1 ELSE 0)
                                  + (IF catResp.params.category # "" THEN 1 ELSE 0)

\* A search with both a term and a category was answered.
C21_Witness ==
    /\ catResp.op = "getProducts"
    /\ catResp.params.q = "tea" /\ catResp.params.category = "drink"
    /\ Len(SearchConditions) = 2
    /\ catResp.resp.status = 200

\* C22: the search uses the fixed default page size when pageSize is absent
\* or not a number, and a zero or negative pageSize is rejected as a caller
\* error: it is not forwarded, clamped or silently dropped.
DefaultPageSize == <<"page_size", "9">>
InQuery(pair) == \E i \in 1..Len(catResp.request.query) : catResp.request.query[i] = pair
PageSizeNotPositive ==
    LET n == parseInt(catResp.params.pageSize) IN
    catResp.params.pageSize # "" /\ ~n.nan /\ n.n <= 0
PageSizeNotNumber == catResp.params.pageSize = "" \/ parseInt(catResp.params.pageSize).nan
C22_Original ==
    catResp.op = "getProducts" =>
      /\ PageSizeNotNumber => InQuery(DefaultPageSize)
      /\ PageSizeNotPositive => catResp.resp.status = 400 /\ catResp.call.fetches = <<>>

\* C23: the page token of the caller is sent unchanged as page_token and
\* omitted when empty, hasMore is the service's has_more and nextPageToken
\* its page_token ("" when absent), so a caller that re-issues the search
\* with each nextPageToken until hasMore is false receives every catalog row
\* exactly once.
CatalogIds == [i \in 1..MaxRows |-> CatalogRows[i].record_id]
TokenForwarded ==
    catResp.op = "getProducts" =>
      /\ catResp.params.pageToken # ""
           => InQuery(<<"page_token", catResp.params.pageToken>>)
      /\ (\E i \in 1..Len(catResp.request.query) : catResp.request.query[i][1] = "page_token")
           => catResp.params.pageToken # ""
      /\ catResp.resp.status = 200 =>
           /\ catResp.resp.body.hasMore = catResp.data.has_more
           /\ catResp.resp.body.nextPageToken = catResp.data.page_token
ReceivedInOrder ==
    /\ Len(pager.received) <= MaxRows
    /\ pager.received = SubSeq(CatalogIds, 1, Len(pager.received))
C23_PagingDeliversEachRowOnce ==
    /\ TokenForwarded
    /\ ReceivedInOrder
    /\ pager.pc = "done" => pager.received = CatalogIds

\* A caller finished a search of three pages.
C23_Witness ==
    /\ pager.pc = "done"
    /\ pager.pageSize = "1"
    /\ pager.received = CatalogIds

\* C24: the row-to-product mapping never fails on a row, or a result page,
\* with an optional field missing or empty: a missing price or stock maps to
\* 0 and every missing text field (name, description, type, unit, image) to
\* the empty string.
MappedByDefault(row, product) ==
    /\ row.fields.price = None => product.price = 0
    /\ row.fields.stock = None => product.stock = 0
    /\ row.fields.name = Absent => product.name = ""
    /\ row.fields.description = Absent => product.description = ""
    /\ row.fields.type = Absent => product.type = ""
    /\ row.fields.unit = Absent => product.unit = ""
    /\ row.fields.image = Absent => product.image = EmptyUrl
C24_Original ==
    (catResp.op = "getProducts" /\ ~catResp.call.threw) =>
      /\ catResp.resp.status = 200
      /\ Len(catResp.resp.body.products) = Len(catResp.data.items)
      /\ \A i \in 1..Len(catResp.data.items) :
            MappedByDefault(catResp.data.items[i], catResp.resp.body.products[i])

\* C25: the category list is a successful empty list whenever the schema has
\* no type field or the field has no options; otherwise it has one
\* {id, name, color} per option, in the schema's order; and no product row
\* is read.
TypeFieldsOf(data) == {i \in 1..Len(data.items) : data.items[i].field_name = "type"}
TypeOptions(data) ==
    IF TypeFieldsOf(data) = {} THEN <<>>
    ELSE data.items[CHOOSE i \in TypeFieldsOf(data) : TRUE].options
C25_CategoriesFromSchemaOptions ==
    catResp.op = "getProductCategories" =>
      /\ catResp.call.op = "fields"
      /\ catResp.call.fetches \in {<<>>, <<"tenant_access_token">>,
                                    <<"tenant_access_token", "bitable">>}
      /\ (catResp.resp.status = 200) = ~catResp.call.threw
      /\ catResp.resp.status = 200 =>
           LET categories == catResp.resp.body.categories
               options == TypeOptions(catResp.schema)
           IN /\ catResp.resp.body.success
              /\ Len(categories) = Len(options)
              /\ \A i \in 1..Len(options) :
                    categories[i] = [id |-> options[i].id, name |-> options[i].name,
                                     color |-> options[i].color]

\* A category list was returned for a type field with two options.
C25_Witness ==
    /\ catResp.op = "getProductCategories"
    /\ catResp.resp.status = 200
    /\ Len(catResp.resp.body.categories) = 2
    /\ catResp.resp.body.categories[1].name = "drink"

\* C26: the order list groups the rows in the order the search returned
\* them: the aggregates appear in the order of the first row seen of each
\* order id; status, address and createdAt of an aggregate are those of that
\* first row, whatever later rows of the order hold; and every row of the
\* order id appends exactly one line item and adds its amount to total.
FoundId(i) == listResp.found[i].orderId[1].text
IndicesOf(orderId) == {i \in 1..Len(listResp.found) : FoundId(i) = orderId}
FirstIndex(orderId) == CHOOSE i \in IndicesOf(orderId) : \A j \in IndicesOf(orderId) : i <= j
RankOf(i) == Cardinality({j \in IndicesOf(FoundId(i)) : j <= i})
LineItemOf(i) ==
    [productId |-> listResp.found[i].product.link_record_ids[1],
     quantity |-> ParseQuantity(listResp.found[i].quantity),
     amount |-> ParseAmount(listResp.found[i].amount)]
C26_GroupedInOrderSeededByFirstRow ==
    listResp.resp.status = 200 =>
      LET orders == listResp.resp.body.orders IN
      /\ {orders[j].id : j \in 1..Len(orders)} = {FoundId(i) : i \in 1..Len(listResp.found)}
      /\ \A j, k \in 1..Len(orders) :
            j < k => FirstIndex(orders[j].id) < FirstIndex(orders[k].id)
      /\ \A j \in 1..Len(orders) :
            LET o == orders[j]
                first == listResp.found[FirstIndex(o.id)]
            IN /\ o.status = FrontendStatus(first.status)
               /\ o.created_at = first.created
               /\ o.address = [recipient_name |-> first.recipient[1].text,
                               phone |-> first.phone,
                               address |-> first.address[1].text]
               /\ Len(o.items) = Cardinality(IndicesOf(o.id))
               /\ \A i \in IndicesOf(o.id) : o.items[RankOf(i)] = LineItemOf(i)
               /\ o.total = SumAmounts(o.items)

\* Two orders were listed, the newer first, and the second row of a two-row
\* order holds another status than its first.
C26_Witness ==
    /\ listResp.resp.status = 200
    /\ Len(listResp.resp.body.orders) = 2
    /\ Len(listResp.found) >= 3
    /\ FoundId(1) = FoundId(2)
    /\ listResp.found[1].status = "placed" /\ listResp.found[2].status = "shipping"
    /\ listResp.resp.body.orders[1].id = FoundId(1)
    /\ listResp.resp.body.orders[1].status = "pending"
    /\ Len(listResp.resp.body.orders[1].items) = 2

\* C27: the order list of a user issues exactly one search call, filtered by
\* the requester's username, and writes nothing; every line item of the
\* response comes from a row with the requester's username: the response is
\* the one the same call gives on any table that differs from the present
\* one only in the rows of other users.
RECURSIVE WithoutRows(_, _, _)
\* The rows s (numbered from k) without those whose number is in drop.
WithoutRows(s, k, drop) ==
    IF s = <<>> THEN <<>>
    ELSE IF k \in drop THEN WithoutRows(Tail(s), k + 1, drop)
         ELSE <<Head(s)>> \o WithoutRows(Tail(s), k + 1, drop)
OtherUsersRows(u) == {k \in 1..Len(orderRows) : orderRows[k].username # Username(u)}
TablesDifferingInOthers(u) ==
    {WithoutRows(orderRows, 1, drop) : drop \in SUBSET OtherUsersRows(u)}
    \cup {[k \in 1..Len(orderRows) |->
             IF k \in OtherUsersRows(u) THEN [orderRows[k] EXCEPT !.status = "cancelled",
                                                                   !.quantity = MaxQty]
             ELSE orderRows[k]]}
ListStep(u) == listResp = NoRead /\ listResp' # NoRead /\ listResp'.user = u
OneFilteredSearch(u) ==
    /\ listResp'.call.op = "search"
    /\ Len(listResp'.call.fetches) <= 2
    /\ \A i \in 1..Len(listResp'.call.fetches) :
          listResp'.call.fetches[i] = "bitable" => i = Len(listResp'.call.fetches)
    /\ listResp'.request.path = "records/search"
    /\ listResp'.request.filter =
          <<[conjunction |-> "and",
             conditions |-> <<[field_name |-> "username", operator |-> "is",
                               value |-> <<Username(u)>>]>>]>>
ListIgnoresOthers(u) ==
    \A table \in TablesDifferingInOthers(u) :
       listResp'.resp = getUserOrdersRespOn(table, u, listResp'.call.token, listResp'.call.code)
C27_ListReadsOwnRowsOnly ==
    [][\A u \in Users :
         ListStep(u) =>
           /\ OneFilteredSearch(u)
           /\ UNCHANGED <<products, addresses, orderRows, uuidCount>>
           /\ ListIgnoresOthers(u)]_vars

\* A user's order list was answered while the table held a row of the
\* other user beside a row of the user's own.
C27_Witness ==
    /\ listResp.resp.status = 200
    /\ Len(listResp.found) >= 1
    /\ Len(listResp.resp.body.orders) = 1
    /\ \E k \in 1..listResp.seen : orderRows[k].username # Username(listResp.user)

\* C28: every order row written by createOrder has a quantity that is a
\* positive integer and at most the stock read for its product during the
\* call's validation; an item with a zero quantity never results in a
\* written row.
C28_Original ==
    \A r \in Reqs : \A i \in 1..Len(req[r].wrote) :
       /\ req[r].wrote[i].quantity >= 1
       /\ req[r].wrote[i].quantity <= req[r].reads[i].stock

\* C29: after any sequence of createAddress, updateAddress and deleteAddress
\* calls, concurrent ones included, each user has at most one address whose
\* is_default is set.
DefaultsOf(u) == {a \in AddrIds : addresses[a].user_id = u /\ addresses[a].is_default}
C29_Original == \A u \in Users : Cardinality(DefaultsOf(u)) <= 1

\* C30: an updateAddress or deleteAddress call whose address id does not
\* exist or belongs to another user answers 404 and leaves the address table
\* as it is, the is_default flags of the caller's own addresses included.
TargetsRow(s) == addrReq[s].op \in {"update", "delete"}
UnownedAnswered404 ==
    \A s \in AddrSlots :
       (TargetsRow(s) /\ addrReq[s].pc = "done" /\ ~addrReq[s].found)
         => addrReq[s].resp.status = 404 /\ addrReq[s].writes = 0
UnownedStepKeepsTable ==
    \A s \in AddrSlots :
       (addrReq[s].pc = "idle" /\ addrReq'[s].pc = "done" /\ TargetsRow(s)'
        /\ addresses[addrReq'[s].addressId].user_id # addrReq'[s].user)
         => /\ addresses' = addresses
            /\ addrReq'[s].resp.status = 404
C30_UnownedTargetNotFoundNoChange ==
    /\ []UnownedAnswered404
    /\ [][UnownedStepKeepsTable]_vars

\* An update that asked for the default flag on another user's address was
\* answered 404 while the caller's own default address kept its flag.
C30_Witness ==
    \E s \in AddrSlots :
       /\ addrReq[s].op = "update" /\ addrReq[s].body.is_default
       /\ addrReq[s].resp.status = 404
       /\ addresses[addrReq[s].addressId].user_id \in Users \ {addrReq[s].user}
       /\ DefaultsOf(addrReq[s].user) # {}

====
